---- MODULE Spec2Model ----
(***************************************************************************)
(* Model of the apptainer image build engine.                              *)
(*                                                                         *)
(* Part 1: the multi-stage build orchestrator, internal/pkg/build/build.go *)
(* (newBuild, Build.cleanUp, haveBindFor, Build.Full).  The main goroutine *)
(* executes newBuild and then Full; the goroutine started by Full waits    *)
(* for a termination signal, runs cleanUp and exits the process.           *)
(*                                                                         *)
(* The helpers Full calls that live outside build.go (host and container   *)
(* script runners, file copies, conveyors, packers, assemblers, bundles)   *)
(* are external calls: each call is one step whose outcome (success or     *)
(* error) is chosen nondeterministically.                                  *)
(***************************************************************************)
EXTENDS Integers, Sequences, FiniteSets, TLC

\* Largest number of definitions (stages) handed to newBuild.
MaxStages == 2

\* The umask of a build, syscall.Umask(0o002).
Umask002 == 2

\* The conveyor Get loop gives up at this attempt.
GetAttempts == 5

VARIABLES
    conf,         \* Build.Conf: Update, Force, NoCleanUp, Format, ImgCacheNil, Binds, Sections
    defs,         \* the definitions handed to newBuild, one per stage
    stages,       \* Build.stages: per stage the bundle, conveyor and assembler
    bundleDirs,   \* indices of the stages whose bundle directories exist on disk
    sandboxCopy,  \* local sandboxCopy of newBuild
    pc,           \* position of the main goroutine
    cur,          \* loop index i of newBuild / Full (1-based)
    attempt,      \* the retry counter of the conveyor Get loop
    defers,       \* stack of the calls deferred by Full, last deferred last
    panicking,    \* TRUE while a run-time panic unwinds Full
    sessionFiles, \* session copies of /etc/resolv.conf, /etc/hosts that exist
    umask,        \* the process umask
    nbOldumask,   \* local oldumask of newBuild
    oldumask,     \* local oldumask of Full
    sigChan,      \* number of signals buffered in channel c (capacity 1)
    hdl,          \* position of the signal goroutine
    cleanAt,      \* per goroutine: 0 outside cleanUp, else index of the next stage of its loop
    exited,       \* TRUE once the process has exited
    exitCode,     \* the exit code, meaningful once exited
    result,       \* what Full returned: "none" (not yet), "ok", "err"
    log,          \* history: the steps Full started, in order, as <<stage, step>>
    failed,       \* history: the step whose failure Full returned, or <<>>
    hostFiles,    \* the files among /etc/resolv.conf, /etc/hosts the host has
    destNoexec,   \* the mount that holds the build destination has the noexec option
    path,         \* history: per stage, the branch its pack step took
    gets,         \* history: Get calls made by the retry loop in progress
    lastGet,      \* history: the outcome of the latest Get call
    packedAfter,  \* history: what lastGet was at the latest conveyor Pack call
    cleanDone,    \* history: the goroutines whose cleanUp call has returned
    sigInFull,    \* history: a signal was delivered while Full was running
    rootfs,       \* metadata writer: the files of a bundle's rootfs
    bundle,       \* metadata writer: the bundle of the latest insertMetadata call
    inserted,     \* history: FullRaw of the calls of insertDefinition that returned nil
    input,        \* the argument of the function under study
    output,       \* what the function under study returned for input
    driver,       \* FUSE driver: its driverName
    cmd,          \* FUSE driver: d.cmd, 0 (nil) or the index of a helper
    helpers,      \* the commands the driver created: Process set or nil, state of the process
    mountinfo,    \* the mount points of /proc/self/mountinfo
    mpc,          \* position of the caller of the driver
    totTime,      \* local totTime of Mount, in milliseconds
    ret,          \* what the latest call of the driver returned
    obs,          \* history: what the latest poll of Mount found, and the table at its start
    registry,     \* the names image.RegisterDriver has been called with
    squashImageDriver,    \* fuseappsDriver: "nil" or the name of the driver it holds
    overlayfsImageDriver, \* fuseappsDriver: "nil" or the name of the driver it holds
    fret          \* what the latest call of the fuseapps driver did and returned

\* The variables of the build orchestrator.
BuildVars == <<conf, defs, stages, bundleDirs, sandboxCopy, pc, cur, attempt, defers, panicking,
          sessionFiles, umask, nbOldumask, oldumask, sigChan, hdl, cleanAt,
          exited, exitCode, result, log, failed, hostFiles, destNoexec, path, gets,
          lastGet, packedAfter, cleanDone, sigInFull>>

\* The variables of the metadata writer and of the functions studied alone.
MetadataVars == <<rootfs, bundle, inserted>>
FuncVars == <<input, output>>
\* The variables of the FUSE drivers.
DriverVars == <<driver, cmd, helpers, mountinfo, mpc, totTime, ret, obs>>
\* The variables of the fuseapps driver.
FuseappsVars == <<registry, squashImageDriver, overlayfsImageDriver, fret>>
OtherParts == <<MetadataVars, FuncVars, DriverVars, FuseappsVars>>

vars == <<BuildVars, MetadataVars, FuncVars, DriverVars, FuseappsVars>>

\* A map[string]string is a function whose domain is the set of its keys.
EmptyMap == [k \in {} |-> ""]

\* A file that may be absent is a sequence of length 0 (absent) or 1 (its
\* content).  The files of a rootfs the metadata writer reads or writes,
\* under /.singularity.d unless said otherwise.
EmptyRootfs ==
    [labels |-> <<>>,        \* labels.json: a map
     buildLabels |-> <<>>,   \* /.build.labels: lines of words
     singularity |-> <<>>,   \* Singularity: a recipe text
     histDir |-> FALSE,      \* bootstrap_history exists
     history |-> EmptyMap,   \* bootstrap_history: index N of Apptainer<N> -> text
     help |-> <<>>,          \* runscript.help
     env |-> <<>>,           \* env/90-environment.sh: the pieces written
     startscript |-> <<>>,
     runscript |-> <<>>,
     test |-> <<>>,
     inspect |-> FALSE]      \* JSONObjects holds the inspect metadata

\* No call of insertMetadata has been made.
NoBundle == [step |-> "idle", calls |-> 0]

\* The metadata writer and the functions studied alone are not in use.
MetadataIdle == rootfs = EmptyRootfs /\ bundle = NoBundle /\ inserted = <<>>
FuncIdle == input = <<>> /\ output = <<>>

\* The driver that has made no command, and the poll that has found nothing.
NoPoll == [alive |-> FALSE, readOk |-> FALSE, found |-> FALSE, stale |-> FALSE]
NoReturn == [op |-> "none", err |-> "nil"]
DriverIdle ==
    /\ driver = "squashfuse" /\ cmd = 0 /\ helpers = <<>>
    /\ mountinfo = {} /\ mpc = "idle" /\ totTime = 0
    /\ ret = NoReturn /\ obs = NoPoll

\* The fuseapps driver as &fuseappsDriver{} makes it, with no call made.
NoCall == [op |-> "none", filesystem |-> "", to |-> "nil", err |-> "nil"]
FuseappsIdle ==
    /\ registry = {}
    /\ squashImageDriver = "nil" /\ overlayfsImageDriver = "nil"
    /\ fret = NoCall

----------------------------------------------------------------------------
(* Inputs *)

\* The build environments of the model: the --bind paths (each one as
\* strings.Split(bindpath, ":") returns it), the sections selected, and the
\* files the host has, and whether the mount of the destination is noexec.
Envs ==
    { [Binds |-> <<>>,
       Sections |-> <<"all">>,
       HostFiles |-> {"/etc/resolv.conf", "/etc/hosts"},
       DestNoexec |-> FALSE],
      [Binds |-> << <<"/etc/resolv.conf">> >>,
       Sections |-> <<"post", "none", "files">>,
       HostFiles |-> {"/etc/resolv.conf", "/etc/hosts"},
       DestNoexec |-> TRUE],
      [Binds |-> << <<"/etc/resolv.conf", "/mnt/resolv">>,
                    <<"/host/hosts", "/etc/hosts", "ro">> >>,
       Sections |-> <<"files">>,
       HostFiles |-> {},
       DestNoexec |-> FALSE] }

Formats == {"sandbox", "sif", "docker"}

\* A definition: whether Header is non-nil, Header["stage"] ("" when the
\* header has no such key), the %post body and the script fragment its app
\* sections give rise to, as token lists.
DefPatterns ==
    << [Header |-> TRUE, Stage |-> "devel", Post |-> <<"post">>, AppPost |-> <<>>],
       [Header |-> TRUE, Stage |-> "",      Post |-> <<>>,       AppPost |-> <<>>],
       [Header |-> TRUE, Stage |-> "build", Post |-> <<"post">>, AppPost |-> <<"apps">>],
       [Header |-> TRUE, Stage |-> "",      Post |-> <<>>,       AppPost |-> <<"apps">>] >>

\* The lists of n definitions the model builds: the patterns in rotation,
\* and a list whose last definition has no header.
DefLists(n) ==
    { [i \in 1..n |-> DefPatterns[((i + k) % Len(DefPatterns)) + 1]] :
          k \in {1, 3} }
    \cup { [i \in 1..n |-> IF i = n THEN [DefPatterns[1] EXCEPT !.Header = FALSE,
                                                                  !.Stage = ""]
                                    ELSE DefPatterns[1]] }

Goroutines == {"main", "handler"}

----------------------------------------------------------------------------
(* Pure helpers *)

\* haveBindFor: true iff some bind has the given destination.
haveBindFor(binds, destination) ==
    \E k \in 1..Len(binds) :
        LET splitted == binds[k]
            src == splitted[1]
            dst == IF Len(splitted) > 1 THEN splitted[2] ELSE src
        IN  destination = dst

\* Bundle.RunSection: whether the build options select the section.
RECURSIVE RunSectionFrom(_, _, _)
RunSectionFrom(sections, k, s) ==
    IF k > Len(sections) THEN FALSE
    ELSE IF sections[k] = "none" THEN FALSE
    ELSE IF sections[k] = "all" \/ sections[k] = s THEN TRUE
    ELSE RunSectionFrom(sections, k + 1, s)

RunSection(s) == RunSectionFrom(conf.Sections, 1, s)

----------------------------------------------------------------------------
(* newBuild *)

Init ==
    /\ \E e \in Envs :
         /\ conf \in [Update : BOOLEAN, Force : BOOLEAN, NoCleanUp : BOOLEAN,
                      Format : Formats, ImgCacheNil : BOOLEAN,
                      Binds : {e.Binds}, Sections : {e.Sections}]
         /\ hostFiles = e.HostFiles
         /\ destNoexec = e.DestNoexec
    /\ \E n \in 1..MaxStages : defs \in DefLists(n)
    /\ stages = <<>>
    /\ bundleDirs = {}
    /\ sandboxCopy = FALSE
    /\ pc = "newBuild"
    /\ cur = 0
    /\ attempt = 0
    /\ defers = <<>>
    /\ panicking = FALSE
    /\ sessionFiles = {}
    /\ umask = 18                       \* 0o022, the usual user umask
    /\ nbOldumask = 0
    /\ oldumask = 0
    /\ sigChan = 0
    /\ hdl = "notStarted"
    /\ cleanAt = [g \in Goroutines |-> 0]
    /\ exited = FALSE
    /\ exitCode = 0
    /\ result = "none"
    /\ log = <<>>
    /\ failed = <<>>
    /\ path = <<>>
    /\ gets = 0
    /\ lastGet = "none"
    /\ packedAfter = "none"
    /\ cleanDone = {}
    /\ sigInFull = FALSE
    /\ MetadataIdle
    /\ DriverIdle
    /\ FuseappsIdle
    /\ FuncIdle

\* Everything newBuild leaves alone that Full owns.
FullVars == <<attempt, defers, panicking, sessionFiles, oldumask, sigChan, hdl,
              cleanAt, exited, exitCode, result, log, failed, path, gets,
              lastGet, packedAfter, cleanDone, sigInFull>>

\* newBuild returns an error: the deferred Umask(oldumask) runs.
nbFail ==
    /\ pc' = "nbFailed"
    /\ umask' = nbOldumask

\* Lines 80-106: umask, absolute destination, update forces the sandbox
\* format, the mount table is read.
NewBuildEnter ==
    /\ pc = "newBuild"
    /\ \E out \in {"ok", "absErr", "mountinfoErr"} :
         /\ nbOldumask' = umask
         /\ IF out = "ok"
            THEN /\ umask' = Umask002
                 /\ conf' = [conf EXCEPT !.Format = IF conf.Update THEN "sandbox" ELSE @]
                 /\ pc' = "nbStage"
                 /\ cur' = 1
            ELSE /\ umask' = umask
                 /\ pc' = "nbFailed"
                 /\ UNCHANGED <<conf, cur>>
    /\ UNCHANGED <<defs, hostFiles, destNoexec, stages, bundleDirs, sandboxCopy>>
    /\ UNCHANGED FullVars
    /\ UNCHANGED OtherParts

\* The conveyor is looked up unless the bootstrap is skipped (line 178).
needsConveyor(update, force) == ~update \/ force

\* Variant of hasHeader that accepts every definition.
hasHeaderAlways(d) == TRUE

\* Line 111: d.Header is not nil.
hasHeader(d) == d.Header

\* Lines 109-187: one iteration of the loop that creates the stages.
\* out is the first call of the iteration that fails; inside says whether
\* the bundle's rootfs was created inside the build parent directory.
NewBuildStage ==
    /\ pc = "nbStage"
    /\ cur <= Len(defs)
    /\ LET d == defs[cur]
           last == cur = Len(defs)
           sandboxLast == conf.Format = "sandbox" /\ last
       IN  IF ~hasHeader(d)
           THEN /\ nbFail
                /\ UNCHANGED <<stages, bundleDirs, sandboxCopy, cur>>
           ELSE \E out \in {"ok", "mkdirErr", "bundleErr", "findErr", "noexecDest",
                            "tmpFindErr", "noexecTmp", "cpErr"},
                   inside \in BOOLEAN :
                /\ out \in {"findErr", "noexecDest"} => sandboxLast /\ inside
                /\ out = "noexecDest" => destNoexec
                /\ (sandboxLast /\ inside /\ destNoexec) =>
                       out \in {"mkdirErr", "bundleErr", "findErr", "noexecDest"}
                /\ out \in {"tmpFindErr", "noexecTmp"} => last
                /\ out = "cpErr" => needsConveyor(conf.Update, conf.Force)
                /\ ~sandboxLast => inside
                /\ bundleDirs' = IF out \in {"mkdirErr", "bundleErr"}
                                 THEN bundleDirs ELSE bundleDirs \cup {cur}
                /\ sandboxCopy' = IF out \notin {"mkdirErr", "bundleErr"}
                                     /\ sandboxLast /\ ~inside
                                  THEN TRUE ELSE sandboxCopy
                /\ IF out = "ok"
                   THEN /\ stages' = Append(stages,
                                [name |-> d.Stage,
                                 c |-> needsConveyor(conf.Update, conf.Force),
                                 a |-> "nil",
                                 Recipe |-> d])
                        /\ cur' = cur + 1
                        /\ UNCHANGED <<pc, umask>>
                   ELSE /\ nbFail
                        /\ UNCHANGED <<stages, cur>>
    /\ UNCHANGED <<conf, defs, hostFiles, destNoexec, nbOldumask>>
    /\ UNCHANGED FullVars
    /\ UNCHANGED OtherParts

\* Variant of assemblerStage that picks the first stage.
assemblerStageFirst(n) == 1

\* Lines 189-215: the index of the stage that gets the assembler.
assemblerStage(n) == n

\* Lines 189-217: only the last stage gets an assembler; newBuild returns.
NewBuildAssembler ==
    /\ pc = "nbStage"
    /\ cur > Len(defs)
    /\ \E out \in {"ok", "pathErr", "procsErr", "memErr"} :
         /\ out # "ok" => conf.Format = "sif"
         /\ IF conf.Format \in {"sandbox", "sif"} /\ out = "ok"
            THEN /\ stages' = [stages EXCEPT ![assemblerStage(Len(stages))].a =
                                 IF conf.Format = "sif" THEN "SIFAssembler"
                                 ELSE IF sandboxCopy THEN "SandboxAssemblerCopy"
                                 ELSE "SandboxAssembler"]
                 /\ pc' = "built"
                 /\ umask' = nbOldumask
            ELSE /\ nbFail
                 /\ UNCHANGED stages
    /\ UNCHANGED <<conf, defs, hostFiles, destNoexec, bundleDirs, sandboxCopy, cur, nbOldumask>>
    /\ UNCHANGED FullVars
    /\ UNCHANGED OtherParts


----------------------------------------------------------------------------
(* Build.cleanUp *)

\* Variant of cleanUpFirst that does not look at NoCleanUp.
cleanUpFirstIgnoringOption(noCleanUp, n) == 1

\* Lines 222-231: index of the first stage the removal loop visits; with
\* NoCleanUp the function returns before the loop.
cleanUpFirst(noCleanUp, n) == IF noCleanUp THEN n + 1 ELSE 1

\* Goroutine g calls b.cleanUp().
cleanUpCall(g) ==
    cleanAt' = [cleanAt EXCEPT ![g] = cleanUpFirst(conf.NoCleanUp, Len(stages))]

\* Bundle.Remove: the directories of bundle i are removed; removing a bundle
\* that is gone changes nothing.
bundleRemove(dirs, i) == dirs \ {i}

\* Lines 231-237: one iteration of the removal loop, s.b.Remove().
cleanUpRemove(g) ==
    /\ cleanAt[g] \in 1..Len(stages)
    /\ bundleDirs' = bundleRemove(bundleDirs, cleanAt[g])
    /\ cleanAt' = [cleanAt EXCEPT ![g] = @ + 1]
    /\ UNCHANGED cleanDone

\* cleanUp returns to goroutine g.
cleanUpReturn(g) ==
    /\ cleanAt[g] > Len(stages)
    /\ cleanAt' = [cleanAt EXCEPT ![g] = 0]
    /\ cleanDone' = cleanDone \cup {g}
    /\ UNCHANGED bundleDirs

----------------------------------------------------------------------------
(* Build.Full: the main goroutine *)

NewBuildVars == <<conf, defs, hostFiles, destNoexec, sandboxCopy, nbOldumask>>
SignalVars == <<sigChan, hdl, exited, exitCode, sigInFull>>
CleanVars == <<bundleDirs, cleanAt, cleanDone>>
HistVars == <<path, gets, lastGet, packedAfter>>

\* Variant of FullOrder that runs the test script before the metadata is
\* inserted.
FullOrderTestFirst == <<"pre", "pack", "apps", "filesFrom", "setup", "files",
                        "resolv", "hosts", "post", "test", "metadata">>

\* The calls of one iteration of the stage loop, in program order
\* (lines 276-388).
FullOrder == <<"pre", "pack", "apps", "filesFrom", "setup", "files",
               "resolv", "hosts", "post", "metadata", "test">>

Index(s) == CHOOSE k \in 1..Len(FullOrder) : FullOrder[k] = s

\* Lines 259-273: watch for signals, defer cleanUp, set the umask.
FullEnter ==
    /\ pc = "built"
    /\ ~exited
    /\ hdl' = "wait"
    /\ defers' = << <<"cleanUp", 0, "">> >>
    /\ oldumask' = umask
    /\ umask' = Umask002
    /\ cur' = 1
    /\ pc' = "pre"
    /\ path' = [i \in 1..Len(stages) |-> "none"]
    /\ UNCHANGED <<stages, attempt, panicking, sessionFiles, result, log, failed,
                   gets, lastGet, packedAfter>>
    /\ UNCHANGED <<sigChan, exited, exitCode, sigInFull>>
    /\ UNCHANGED NewBuildVars
    /\ UNCHANGED OtherParts
    /\ UNCHANGED CleanVars

\* The call named s returned nil: control moves to the next call, to the
\* next stage, or past the loop.
Succeed(s) ==
    IF Index(s) < Len(FullOrder)
    THEN pc' = FullOrder[Index(s) + 1] /\ cur' = cur
    ELSE IF cur < Len(stages)
         THEN pc' = FullOrder[1] /\ cur' = cur + 1
         ELSE pc' = "assemble" /\ cur' = cur

\* Variant of Fail that records the error and carries on.
FailIgnored(s) ==
    /\ Succeed(s)
    /\ result' = result
    /\ failed' = <<cur, s>>

\* The call named s returned an error: Full returns it.
Fail(s) ==
    /\ pc' = "return"
    /\ cur' = cur
    /\ result' = "err"
    /\ failed' = <<cur, s>>

\* A call of the loop body whose outcome is nil or an error.
Call(s) ==
    /\ log' = Append(log, <<cur, s>>)
    /\ \E ok \in BOOLEAN :
         IF ok THEN Succeed(s) /\ UNCHANGED <<result, failed>> ELSE Fail(s)

\* What every plain step of the loop leaves alone.
StepFrame ==
    /\ UNCHANGED <<stages, attempt, defers, panicking, sessionFiles, umask,
                   oldumask, HistVars>>
    /\ UNCHANGED SignalVars
    /\ UNCHANGED NewBuildVars
    /\ UNCHANGED OtherParts
    /\ UNCHANGED CleanVars

\* Line 277: stage.runHostScript("pre", ...).
RunPre ==
    /\ pc = "pre"
    /\ ~exited
    /\ Call("pre")
    /\ StepFrame

\* Variant of useLocalPacker that updates the first stage, not the last.
useLocalPackerFirst(update, force, i, n) == update /\ ~force /\ i = 1

\* Line 282: the stage is updated in place.
useLocalPacker(update, force, i, n) == update /\ ~force /\ i = n

\* Lines 282-299: the local packer extracts the destination into the bundle,
\* or the conveyor path starts after the image cache check.
Pack ==
    /\ pc = "pack"
    /\ ~exited
    /\ log' = Append(log, <<cur, "pack">>)
    /\ IF useLocalPacker(conf.Update, conf.Force, cur, Len(stages))
       THEN \E out \in {"ok", "getLocalPackerErr", "packErr"} :
              /\ path' = [path EXCEPT ![cur] = "local"]
              /\ IF out = "ok"
                 THEN Succeed("pack") /\ UNCHANGED <<result, failed>>
                 ELSE Fail("pack")
              /\ UNCHANGED attempt
       ELSE /\ path' = [path EXCEPT ![cur] = "scratch"]
            /\ IF conf.ImgCacheNil
               THEN Fail("pack") /\ UNCHANGED attempt
               ELSE /\ attempt' = 0
                    /\ pc' = "get"
                    /\ UNCHANGED <<cur, result, failed>>
    /\ gets' = 0
    /\ lastGet' = "none"
    /\ UNCHANGED <<stages, defers, panicking, sessionFiles, umask, oldumask,
                   packedAfter>>
    /\ UNCHANGED SignalVars
    /\ UNCHANGED NewBuildVars
    /\ UNCHANGED OtherParts
    /\ UNCHANGED CleanVars

\* Error messages a conveyor's Get may return, as lists of fragments.
GetErrors ==
    { <<"unable to fetch: ", "no descriptor found for reference", " x">>,
      <<"no descriptor found for reference">>,
      <<"connection refused">> }

\* strings.Contains(err.Error(), "no descriptor found for reference").
containsMarker(err) ==
    \E k \in 1..Len(err) : err[k] = "no descriptor found for reference"

\* Variant of getGivesUp that allows one more attempt.
getGivesUpLate(err, att) == ~containsMarker(err) \/ att = GetAttempts + 1

\* Line 307: the Get loop returns the error instead of trying again.
getGivesUp(err, att) == ~containsMarker(err) \/ att = GetAttempts

\* Lines 301-314: one call of stage.c.Get.  A stage without a conveyor
\* holds a nil interface: the call panics.
ConveyorGet ==
    /\ pc = "get"
    /\ ~exited
    /\ IF ~stages[cur].c
       THEN /\ panicking' = TRUE
            /\ pc' = "return"
            /\ UNCHANGED <<cur, attempt, result, failed, gets, lastGet>>
       ELSE \/ /\ gets' = gets + 1
               /\ lastGet' = "nil"
               /\ pc' = "cpack"
               /\ UNCHANGED <<cur, attempt, result, failed, panicking>>
            \/ \E err \in GetErrors :
               /\ gets' = gets + 1
               /\ lastGet' = IF containsMarker(err) THEN "marker" ELSE "other"
               /\ attempt' = attempt + 1
               /\ IF getGivesUp(err, attempt + 1)
                  THEN Fail("pack")
                  ELSE UNCHANGED <<pc, cur, result, failed>>
               /\ UNCHANGED panicking
    /\ UNCHANGED <<stages, defers, sessionFiles, umask, oldumask, log, path,
                   packedAfter>>
    /\ UNCHANGED SignalVars
    /\ UNCHANGED NewBuildVars
    /\ UNCHANGED OtherParts
    /\ UNCHANGED CleanVars

\* Lines 316-319: stage.c.Pack.
ConveyorPack ==
    /\ pc = "cpack"
    /\ ~exited
    /\ packedAfter' = lastGet
    /\ gets' = 0
    /\ \E ok \in BOOLEAN :
         IF ok THEN Succeed("pack") /\ UNCHANGED <<result, failed>> ELSE Fail("pack")
    /\ UNCHANGED <<stages, attempt, defers, panicking, sessionFiles, umask,
                   oldumask, log, path, lastGet>>
    /\ UNCHANGED SignalVars
    /\ UNCHANGED NewBuildVars
    /\ UNCHANGED OtherParts
    /\ UNCHANGED CleanVars

\* Variant of addAppPost that puts the fragment of the apps first.
addAppPostFirst(post, appPost) == appPost \o post

\* Line 333: the script fragment of the apps is added to the post script.
addAppPost(post, appPost) == post \o appPost

\* Lines 322-333: the apps plugin; HandlePost returns the fragment or fails.
HandleApps ==
    /\ pc = "apps"
    /\ ~exited
    /\ log' = Append(log, <<cur, "apps">>)
    /\ \/ /\ Fail("apps")
          /\ UNCHANGED stages
       \/ /\ stages' = [stages EXCEPT ![cur].Recipe.Post =
                                         addAppPost(@, stages[cur].Recipe.AppPost)]
          /\ Succeed("apps")
          /\ UNCHANGED <<result, failed>>
    /\ UNCHANGED <<attempt, defers, panicking, sessionFiles, umask, oldumask>>
    /\ UNCHANGED HistVars
    /\ UNCHANGED SignalVars
    /\ UNCHANGED NewBuildVars
    /\ UNCHANGED OtherParts
    /\ UNCHANGED CleanVars

\* A call of the loop body made only when cond holds.
CallIf(cond, s) ==
    IF cond
    THEN Call(s)
    ELSE Succeed(s) /\ UNCHANGED <<log, result, failed>>

\* Lines 336-340: stage.copyFilesFrom(b).
CopyFilesFrom ==
    /\ pc = "filesFrom"
    /\ ~exited
    /\ CallIf(RunSection("files"), "filesFrom")
    /\ StepFrame

\* Line 342: stage.runHostScript("setup", ...).
RunSetup ==
    /\ pc = "setup"
    /\ ~exited
    /\ Call("setup")
    /\ StepFrame

\* Lines 347-351: stage.copyFiles().
CopyFiles ==
    /\ pc = "files"
    /\ ~exited
    /\ CallIf(RunSection("files"), "files")
    /\ StepFrame

\* createStageFile: what the call may return for a file: an error, the path
\* of the session copy, or the empty path when the host has no such file.
createStageFile(file) ==
    IF file \in hostFiles THEN {"err", "path"} ELSE {"empty"}

\* Lines 355-372: createStageFile for one of the two session files; a
\* non-empty path is removed by a deferred os.Remove.
CreateSessionFile(s, file) ==
    /\ pc = s
    /\ ~exited
    /\ IF ~haveBindFor(conf.Binds, file)
       THEN /\ log' = Append(log, <<cur, s>>)
            /\ \E out \in createStageFile(file) :
                 /\ IF out = "err"
                    THEN Fail(s)
                    ELSE Succeed(s) /\ UNCHANGED <<result, failed>>
                 /\ IF out = "path"
                    THEN /\ sessionFiles' = sessionFiles \cup {<<cur, file>>}
                         /\ defers' = Append(defers, <<"Remove", cur, file>>)
                    ELSE UNCHANGED <<sessionFiles, defers>>
       ELSE /\ Succeed(s)
            /\ UNCHANGED <<log, result, failed, sessionFiles, defers>>
    /\ UNCHANGED <<stages, attempt, panicking, umask, oldumask>>
    /\ UNCHANGED HistVars
    /\ UNCHANGED SignalVars
    /\ UNCHANGED NewBuildVars
    /\ UNCHANGED OtherParts
    /\ UNCHANGED CleanVars

CreateSessionResolv == CreateSessionFile("resolv", "/etc/resolv.conf")

CreateSessionHosts == CreateSessionFile("hosts", "/etc/hosts")

\* Lines 374-378: stage.runPostScript, when the post script is not empty.
RunPost ==
    /\ pc = "post"
    /\ ~exited
    /\ CallIf(stages[cur].Recipe.Post # <<>>, "post")
    /\ StepFrame

\* Lines 380-383: stage.insertMetadata().
InsertMetadata ==
    /\ pc = "metadata"
    /\ ~exited
    /\ Call("metadata")
    /\ StepFrame

\* Lines 385-387: stage.runTestScript.
RunTest ==
    /\ pc = "test"
    /\ ~exited
    /\ Call("test")
    /\ StepFrame

\* Lines 390-398: the umask is restored and the last stage is assembled.  A
\* stage without an assembler holds a nil interface: the call panics.
Assemble ==
    /\ pc = "assemble"
    /\ ~exited
    /\ umask' = oldumask
    /\ pc' = "return"
    /\ IF stages[Len(stages)].a = "nil"
       THEN /\ panicking' = TRUE
            /\ UNCHANGED <<log, result, failed>>
       ELSE /\ log' = Append(log, <<Len(stages), "assemble">>)
            /\ \E ok \in BOOLEAN :
                 IF ok
                 THEN result' = "ok" /\ UNCHANGED failed
                 ELSE result' = "err" /\ failed' = <<Len(stages), "assemble">>
            /\ UNCHANGED panicking
    /\ UNCHANGED <<stages, cur, attempt, defers, sessionFiles, oldumask, HistVars>>
    /\ UNCHANGED SignalVars
    /\ UNCHANGED NewBuildVars
    /\ UNCHANGED OtherParts
    /\ UNCHANGED CleanVars

\* Full returns (or panics): the deferred calls run, last deferred first.
RunDeferred ==
    /\ pc = "return"
    /\ ~exited
    /\ defers # <<>>
    /\ LET top == defers[Len(defers)]
       IN  /\ defers' = SubSeq(defers, 1, Len(defers) - 1)
           /\ IF top[1] = "cleanUp"
              THEN /\ cleanUpCall("main")
                   /\ pc' = "cleanUp"
                   /\ UNCHANGED sessionFiles
              ELSE /\ sessionFiles' = sessionFiles \ {<<top[2], top[3]>>}
                   /\ UNCHANGED <<pc, cleanAt>>
    /\ UNCHANGED <<stages, cur, attempt, panicking, umask, oldumask, result,
                   log, failed, HistVars, bundleDirs, cleanDone>>
    /\ UNCHANGED SignalVars
    /\ UNCHANGED NewBuildVars
    /\ UNCHANGED OtherParts

\* The deferred cleanUp of the main goroutine removes one bundle.
MainCleanUpRemove ==
    /\ pc = "cleanUp"
    /\ ~exited
    /\ cleanUpRemove("main")
    /\ UNCHANGED <<stages, pc, cur, attempt, defers, panicking, sessionFiles,
                   umask, oldumask, result, log, failed, HistVars>>
    /\ UNCHANGED SignalVars
    /\ UNCHANGED NewBuildVars
    /\ UNCHANGED OtherParts

\* The deferred cleanUp of the main goroutine returns.
MainCleanUpReturn ==
    /\ pc = "cleanUp"
    /\ ~exited
    /\ cleanUpReturn("main")
    /\ pc' = "return"
    /\ UNCHANGED <<stages, cur, attempt, defers, panicking, sessionFiles,
                   umask, oldumask, result, log, failed, HistVars>>
    /\ UNCHANGED SignalVars
    /\ UNCHANGED NewBuildVars
    /\ UNCHANGED OtherParts

\* All deferred calls ran: Full returns to its caller, or the panic ends
\* the process.
FullReturn ==
    /\ pc = "return"
    /\ ~exited
    /\ defers = <<>>
    /\ IF panicking
       THEN /\ pc' = "crashed"
            /\ exited' = TRUE
            /\ exitCode' = 2
       ELSE /\ pc' = "returned"
            /\ UNCHANGED <<exited, exitCode>>
    /\ UNCHANGED <<stages, cur, attempt, defers, panicking, sessionFiles,
                   umask, oldumask, result, log, failed, HistVars, sigChan, hdl,
                   sigInFull>>
    /\ UNCHANGED NewBuildVars
    /\ UNCHANGED OtherParts
    /\ UNCHANGED CleanVars

----------------------------------------------------------------------------
(* Build.Full: the signal goroutine (lines 263-269) *)

MainVars == <<stages, pc, cur, attempt, defers, panicking, sessionFiles,
              umask, oldumask, result, log, failed, HistVars>>

\* An interrupt or SIGTERM is delivered: signal.Notify puts it in c, or
\* drops it when c is full.  A signal delivered after the goroutine took one
\* from c stays in c unread and is left out.
Signal ==
    /\ hdl = "wait"
    /\ ~exited
    /\ sigChan = 0
    /\ sigChan' = 1
    /\ sigInFull' = (sigInFull \/ pc \notin {"returned", "crashed"})
    /\ UNCHANGED <<hdl, exited, exitCode>>
    /\ UNCHANGED MainVars
    /\ UNCHANGED NewBuildVars
    /\ UNCHANGED OtherParts
    /\ UNCHANGED CleanVars

\* Line 266-267: <-c, then b.cleanUp() is called.
HandlerReceive ==
    /\ hdl = "wait"
    /\ ~exited
    /\ sigChan = 1
    /\ sigChan' = 0
    /\ hdl' = "cleanUp"
    /\ cleanUpCall("handler")
    /\ UNCHANGED <<exited, exitCode, sigInFull, bundleDirs, cleanDone>>
    /\ UNCHANGED MainVars
    /\ UNCHANGED NewBuildVars
    /\ UNCHANGED OtherParts

\* The cleanUp of the signal goroutine removes one bundle.
HandlerCleanUpRemove ==
    /\ hdl = "cleanUp"
    /\ ~exited
    /\ cleanUpRemove("handler")
    /\ UNCHANGED SignalVars
    /\ UNCHANGED MainVars
    /\ UNCHANGED NewBuildVars
    /\ UNCHANGED OtherParts

\* The cleanUp of the signal goroutine returns.
HandlerCleanUpReturn ==
    /\ hdl = "cleanUp"
    /\ ~exited
    /\ cleanUpReturn("handler")
    /\ hdl' = "exit"
    /\ UNCHANGED <<sigChan, exited, exitCode, sigInFull>>
    /\ UNCHANGED MainVars
    /\ UNCHANGED NewBuildVars
    /\ UNCHANGED OtherParts

\* Line 268: os.Exit(1).
HandlerExit ==
    /\ hdl = "exit"
    /\ ~exited
    /\ exited' = TRUE
    /\ exitCode' = 1
    /\ UNCHANGED <<sigChan, hdl, sigInFull>>
    /\ UNCHANGED MainVars
    /\ UNCHANGED NewBuildVars
    /\ UNCHANGED OtherParts
    /\ UNCHANGED CleanVars

----------------------------------------------------------------------------

Next ==
    \/ NewBuildEnter
    \/ NewBuildStage
    \/ NewBuildAssembler
    \/ FullEnter
    \/ RunPre
    \/ Pack
    \/ ConveyorGet
    \/ ConveyorPack
    \/ HandleApps
    \/ CopyFilesFrom
    \/ RunSetup
    \/ CopyFiles
    \/ CreateSessionResolv
    \/ CreateSessionHosts
    \/ RunPost
    \/ InsertMetadata
    \/ RunTest
    \/ Assemble
    \/ RunDeferred
    \/ MainCleanUpRemove
    \/ MainCleanUpReturn
    \/ FullReturn
    \/ Signal
    \/ HandlerReceive
    \/ HandlerCleanUpRemove
    \/ HandlerCleanUpReturn
    \/ HandlerExit

Spec == Init /\ [][Next]_vars


----------------------------------------------------------------------------
(* Properties of the build orchestrator *)

Range(f) == { f[k] : k \in DOMAIN f }

\* The positions of the main goroutine inside the stage loop of Full.
LoopPcs == Range(FullOrder) \cup {"get", "cpack"}

\* The positions of the main goroutine inside newBuild.
NewBuildPcs == {"newBuild", "nbStage", "nbFailed"}

\* The order of the steps of a stage as the specification states it.
StatedRank(s) ==
    CASE s = "pre" -> 1
      [] s = "pack" -> 2
      [] s = "filesFrom" -> 3
      [] s = "setup" -> 4
      [] s = "files" -> 5
      [] s = "post" -> 6
      [] s = "metadata" -> 7
      [] s = "test" -> 8
      [] OTHER -> 0

IsStatedStep(e) == StatedRank(e[2]) > 0

\* C1: the steps Full has started are in the order pre, pack, files from
\* earlier stages, setup, files from host, post, metadata, test within each
\* stage; the first step is of the first stage; a step of stage i+1 comes
\* only right after the test step of stage i; a stage whose test step ran
\* had its pre, pack, setup and metadata steps run.
C1_StepOrder ==
    LET L == SelectSeq(log, IsStatedStep)
    IN  /\ Len(L) > 0 => L[1][1] = 1
        /\ \A k \in 1..(Len(L) - 1) :
              \/ /\ L[k + 1][1] = L[k][1]
                 /\ StatedRank(L[k + 1][2]) > StatedRank(L[k][2])
              \/ /\ L[k + 1][1] = L[k][1] + 1
                 /\ L[k][2] = "test"
        /\ \A k \in 1..Len(L) :
              L[k][2] = "test" =>
                  \A s \in {"pre", "pack", "setup", "metadata"} :
                      <<L[k][1], s>> \in Range(L)

\* C1 happens: a two-stage build ran all eight steps of stage 1 and reached
\* the test step of stage 2.
C1_Witness ==
    /\ Len(stages) = 2
    /\ <<2, "test">> \in Range(log)
    /\ \A s \in {"pre", "pack", "filesFrom", "setup", "files", "post",
                 "metadata", "test"} : <<1, s>> \in Range(log)

C3_SignalExit ==
    (exited /\ sigInFull) =>
        /\ exitCode = 1
        /\ "handler" \in cleanDone
        /\ (~conf.NoCleanUp => bundleDirs = {})

\* C4 as stated: cleanUp is never in progress in the signal goroutine and
\* in the main goroutine at the same time.
C4_NoConcurrentCleanUp ==
    ~(cleanAt["main"] # 0 /\ cleanAt["handler"] # 0)

\* C5: the retry loop of a stage calls Get at most five times; after a
\* failure with the marker and fewer than five calls the loop is still
\* trying; a failure without the marker, or the fifth failure, makes Full
\* return the error at the pack step; the conveyor's Pack is called only
\* after a Get that returned nil.
C5_GetRetry ==
    /\ gets <= 5
    /\ (lastGet = "marker" /\ gets < 5) => (pc = "get" /\ failed = <<>>)
    /\ (lastGet = "marker" /\ gets >= 5) => failed = <<cur, "pack">>
    /\ lastGet = "other" => failed = <<cur, "pack">>
    /\ failed # <<>> => pc \notin {"get", "cpack"}
    /\ pc = "cpack" => lastGet = "nil"
    /\ packedAfter \in {"none", "nil"}

\* C5 happens: the fifth Get in a row failed with the marker and the build
\* was aborted.
C5_Witness ==
    /\ gets = 5
    /\ lastGet = "marker"
    /\ failed = <<cur, "pack">>
    /\ result = "err"

\* C6: once a step of a stage has failed, Full is returning or has returned
\* an error, the failed step is the last step that was started, and the
\* assembler has not been invoked.
C6_FailureAborts ==
    (failed # <<>> /\ failed[2] # "assemble") =>
        /\ result = "err"
        /\ pc \in {"return", "cleanUp", "returned"}
        /\ Len(log) > 0
        /\ log[Len(log)] = failed
        /\ \A k \in 1..Len(log) : log[k][2] # "assemble"

\* C6 happens: the metadata step of stage 1 of a two-stage build failed and
\* Full returned.
C6_Witness ==
    /\ Len(stages) = 2
    /\ failed = <<1, "metadata">>
    /\ pc = "returned"
    /\ result = "err"

\* C7: after newBuild the last stage, and no other, has an assembler; Full
\* invokes the assembler at most once, on the last stage, after the test
\* step of every stage has returned without error; a successful build has
\* invoked it.
C7_AssemblerLastStage ==
    /\ pc \notin NewBuildPcs =>
          \A i \in 1..Len(stages) : (stages[i].a # "nil") <=> (i = Len(stages))
    /\ \A k \in 1..Len(log) :
          log[k][2] = "assemble" =>
              /\ k = Len(log)
              /\ log[k][1] = Len(stages)
              /\ \A i \in 1..Len(stages) : <<i, "test">> \in Range(log)
              /\ failed \in {<<>>, log[k]}
    /\ result = "ok" => (Len(log) > 0 /\ log[Len(log)][2] = "assemble")

\* C7 happens: a two-stage build succeeded.
C7_Witness ==
    /\ Len(stages) = 2
    /\ stages[1].a = "nil"
    /\ result = "ok"
    /\ pc = "returned"
    /\ <<2, "assemble">> \in Range(log)

\* C8 as stated: when Full has returned, the umask is the one the process
\* had when Full was called.
C8_UmaskRestored ==
    pc = "returned" => umask = oldumask

\* C9 as stated: while a step of a stage runs, no session file of another
\* stage exists, and none exists when the assembler is invoked.
C9_SessionFilesPerStage ==
    /\ pc \in LoopPcs => \A f \in sessionFiles : f[1] = cur
    /\ pc = "assemble" => sessionFiles = {}

C11_AppPostPrepended ==
    \A i \in 1..Len(stages) :
        <<i, "post">> \in Range(log) =>
            stages[i].Recipe.Post = defs[i].AppPost \o defs[i].Post

\* C11 amended: the post script a stage runs is the %post body of the
\* recipe followed by the fragment of the apps.
C11_AppPostAppended ==
    \A i \in 1..Len(stages) :
        <<i, "post">> \in Range(log) =>
            stages[i].Recipe.Post = defs[i].Post \o defs[i].AppPost

\* C11 amended happens: a stage whose recipe has a %post body and apps
\* started its post script, the body first, the fragment after it.
C11_Witness ==
    \E i \in 1..Len(stages) :
        /\ <<i, "post">> \in Range(log)
        /\ defs[i].Post = <<"post">>
        /\ defs[i].AppPost = <<"apps">>
        /\ stages[i].Recipe.Post = <<"post", "apps">>

\* newBuild has returned a build.
BuildCreated == pc \notin NewBuildPcs

\* C12 as stated: a build of more than one definition is created only if
\* every definition has a header with a stage key.
C12_StageKeyRequired ==
    (Len(defs) > 1 /\ BuildCreated) =>
        \A i \in 1..Len(defs) : defs[i].Header /\ defs[i].Stage # ""

\* C12 amended: a build is created only if every definition has a header,
\* with or without a stage key; when some definition has none, newBuild
\* fails and no step of any stage runs.
C12_HeaderRequired ==
    /\ BuildCreated => \A i \in 1..Len(defs) : defs[i].Header
    /\ (\E i \in 1..Len(defs) : ~defs[i].Header) =>
           /\ log = <<>>
           /\ pc = "nbFailed" => Len(stages) < Len(defs)

\* C12 amended happens: a build of two definitions, the second with a
\* header that has no stage key, was created and ran a step of stage 2,
\* whose name is empty.
C12_Witness ==
    /\ Len(defs) = 2
    /\ defs[2].Header
    /\ defs[2].Stage = ""
    /\ BuildCreated
    /\ stages[2].name = ""
    /\ <<2, "pre">> \in Range(log)

\* C13 as stated: for sandbox output on a destination mount with noexec
\* newBuild refuses the build, so that no step of any stage runs, whether
\* the rootfs is inside the build parent directory (rename) or not (copy).
C13_NoexecRefused ==
    (destNoexec /\ (conf.Format = "sandbox" \/ conf.Update)) =>
        /\ ~BuildCreated
        /\ log = <<>>

----------------------------------------------------------------------------
(* Part 2: the metadata writer, internal/pkg/build/metadata.go.  A rootfs   *)
(* receives a sequence of calls of stage.insertMetadata (one build, then    *)
(* update builds of the same sandbox), each with its own recipe and         *)
(* options; every file operation of a call may fail.                        *)

\* Largest number of calls of insertMetadata on one rootfs.
MaxInsertions == 3

(* Strings *)

Char(s, i) == SubSeq(s, i, i)

\* unicode.IsSpace for the characters of the model.
IsSpace(c) == c \in {" ", "\t", "\n", "\r"}

\* strings.HasPrefix, strings.HasSuffix.
HasPrefix(s, prefix) ==
    Len(s) >= Len(prefix) /\ SubSeq(s, 1, Len(prefix)) = prefix
HasSuffix(s, suffix) ==
    Len(s) >= Len(suffix) /\ SubSeq(s, Len(s) - Len(suffix) + 1, Len(s)) = suffix

\* strings.TrimSuffix.
TrimSuffix(s, suffix) ==
    IF HasSuffix(s, suffix) THEN SubSeq(s, 1, Len(s) - Len(suffix)) ELSE s

\* strings.TrimSpace.
RECURSIVE TrimLeftSpace(_)
TrimLeftSpace(s) ==
    IF Len(s) > 0 /\ IsSpace(Char(s, 1)) THEN TrimLeftSpace(Tail(s)) ELSE s
RECURSIVE TrimRightSpace(_)
TrimRightSpace(s) ==
    IF Len(s) > 0 /\ IsSpace(Char(s, Len(s)))
    THEN TrimRightSpace(SubSeq(s, 1, Len(s) - 1)) ELSE s
TrimSpace(s) == TrimRightSpace(TrimLeftSpace(s))

\* strings.Index for a separator of one character, 1-based; 0 when absent.
StringsIndex(s, sep) ==
    IF \E i \in 1..Len(s) : Char(s, i) = sep
    THEN CHOOSE i \in 1..Len(s) :
             /\ Char(s, i) = sep
             /\ \A j \in 1..(i - 1) : Char(s, j) # sep
    ELSE 0

\* strings.SplitN(s, sep, 2): one or two pieces.
SplitN2(s, sep) ==
    LET i == StringsIndex(s, sep)
    IN  IF i = 0 THEN <<s>>
        ELSE <<SubSeq(s, 1, i - 1), SubSeq(s, i + 1, Len(s))>>

\* strings.Split(s, sep): all the pieces.
RECURSIVE Split(_, _)
Split(s, sep) ==
    LET two == SplitN2(s, sep)
    IN  IF Len(two) = 1 THEN two ELSE <<two[1]>> \o Split(two[2], sep)

(* Maps *)

\* m[k] = v.
Put(m, k, v) == [x \in DOMAIN m \cup {k} |-> IF x = k THEN v ELSE m[x]]

\* for k, v := range n { m[k] = v }.
PutAll(m, n) ==
    [x \in DOMAIN m \cup DOMAIN n |-> IF x \in DOMAIN n THEN n[x] ELSE m[x]]

\* parser.GetLabels: one label per line, key and value separated by the
\* first space; empty lines and lines that start with # are skipped, a
\* later line of the same key wins.
RECURSIVE GetLabelsFrom(_, _, _)
GetLabelsFrom(subs, k, labels) ==
    IF k > Len(subs) THEN labels
    ELSE LET line == TrimSpace(subs[k])
             lineSubs == SplitN2(line, " ")
             key == TrimSpace(lineSubs[1])
             val == IF Len(lineSubs) < 2 THEN "" ELSE TrimSpace(lineSubs[2])
         IN  IF line = "" \/ StringsIndex(line, "#") = 1
             THEN GetLabelsFrom(subs, k + 1, labels)
             ELSE GetLabelsFrom(subs, k + 1, Put(labels, key, val))

GetLabels(content) == GetLabelsFrom(Split(TrimSpace(content), "\n"), 1, EmptyMap)

(* Inputs of the metadata writer *)

SchemaVersion == "org.label-schema.schema-version"
DeffilePrefix == "org.label-schema.usage.singularity.deffile."
HelpPath == "/.singularity.d/runscript.help"

\* What time.Now, buildcfg.PACKAGE_VERSION and oci.ArchMap give a build.
BuildDate == "Sunday_1_November_2026_5:4:3_UTC"
PackageVersion == "1.4.0"
BuildArch == "amd64"

NoScript == [Args |-> "", Script |-> ""]

\* The recipes of the model: Header, ImageData.Labels, FullRaw and the
\* image scripts.
Recipes ==
    << [Header |-> ("bootstrap" :> "docker") @@ ("from" :> "alpine"),
       Labels |-> ("maintainer" :> "alice") @@ ("version" :> "1"),
       FullRaw |-> "Bootstrap: docker\nFrom: alpine\n%labels\n",
       Help |-> [Args |-> "", Script |-> "usage"],
       Environment |-> [Args |-> "", Script |-> "export A=1"],
       Runscript |-> [Args |-> "", Script |-> "#!/bin/bash\necho run"],
       Startscript |-> [Args |-> "-e # strict", Script |-> "echo start"],
       Test |-> NoScript],
      [Header |-> ("bootstrap" :> "localimage"),
       Labels |-> ("maintainer" :> "bob") @@ (SchemaVersion :> "2.0")
                  @@ ((DeffilePrefix \o "bootstrap") :> "mine"),
       FullRaw |-> "Bootstrap: localimage\n%labels\n%test\n",
       Help |-> NoScript,
       Environment |-> [Args |-> "", Script |-> "export B=2"],
       Runscript |-> NoScript,
       Startscript |-> NoScript,
       Test |-> [Args |-> "", Script |-> "\n#!/bin/sh\ntrue"]],
      [Header |-> EmptyMap,
       Labels |-> EmptyMap,
       FullRaw |-> "%environment\n",
       Help |-> NoScript,
       Environment |-> [Args |-> "", Script |-> "export C=3"],
       Runscript |-> NoScript,
       Startscript |-> NoScript,
       Test |-> NoScript] >>

\* The builds of the model: the options of the bundle, and the file
\* /.build.labels the post script of the build left in the rootfs.
Builds ==
    << [Opts |-> [Force |-> FALSE, Update |-> FALSE, Sections |-> <<"all">>,
                 Tag |-> "", Digest |-> ""],
       BuildLabels |-> <<>>],
      [Opts |-> [Force |-> FALSE, Update |-> TRUE, Sections |-> <<"all">>,
                 Tag |-> "alpine:3", Digest |-> "sha256:0a"],
       BuildLabels |-> <<"maintainer carol\n# note\n\nteam hpc\n">>],
      [Opts |-> [Force |-> TRUE, Update |-> TRUE, Sections |-> <<"all">>,
                 Tag |-> "alpine:3", Digest |-> ""],
       BuildLabels |-> <<"maintainer dave\nversion\n">>],
      [Opts |-> [Force |-> TRUE, Update |-> FALSE, Sections |-> <<"runscript">>,
                 Tag |-> "", Digest |-> ""],
       BuildLabels |-> <<>>] >>

\* The calls of the model: a recipe and a build, by their positions.
Calls ==
    { <<1, 1>>, <<1, 2>>, <<1, 4>>, <<2, 1>>, <<2, 3>>, <<2, 4>>,
      <<3, 2>>, <<3, 3>> }

\* The labels.json a bootstrap may have put into the rootfs.
BaseLabels == { <<>>, << ("version" :> "0") >> }

\* The state of a rootfs no build has written metadata into.
MetadataInit ==
    /\ \E base \in BaseLabels : rootfs = [EmptyRootfs EXCEPT !.labels = base]
    /\ bundle = NoBundle
    /\ inserted = <<>>

(* The steps of insertMetadata *)

\* Bundle.RunSection for the bundle b.
bundleRunSection(b, section) == RunSectionFrom(b.Opts.Sections, 1, section)

\* getExistingLabels: the map of labels.json, empty without the file.
getExistingLabels(fs) == IF fs.labels = <<>> THEN EmptyMap ELSE fs.labels[1]

\* Variant of readBuildLabels in which a label of labels.json keeps its
\* value unless force is set.
readBuildLabelsKeep(labels, fs, force) ==
    IF fs.buildLabels = <<>> THEN labels
    ELSE LET new == GetLabels(fs.buildLabels[1])
         IN  [x \in DOMAIN labels \cup DOMAIN new |->
                 IF x \in DOMAIN new /\ (x \notin DOMAIN labels \/ force)
                 THEN new[x] ELSE labels[x]]

\* Lines 219-231: the labels of /.build.labels are put into the map.
readBuildLabels(labels, fs, force) ==
    IF fs.buildLabels = <<>> THEN labels
    ELSE PutAll(labels, GetLabels(fs.buildLabels[1]))

\* Variant of exportsHeader that never exports the header.
exportsHeaderNever(update, force) == FALSE

\* Line 337: the header keys become labels only if the build bootstrapped.
exportsHeader(update, force) == ~update \/ force

\* Lines 338-340: the labels made of the header of the recipe.
headerLabels(header) ==
    [x \in { DeffilePrefix \o key : key \in DOMAIN header } |->
        header[CHOOSE key \in DOMAIN header : DeffilePrefix \o key = x]]

\* addBuildLabels: the labels every build sets.
addBuildLabels(labels, b) ==
    LET l1 == Put(labels, SchemaVersion, "1.0")
        l2 == Put(l1, "org.label-schema.build-date", BuildDate)
        l3 == Put(l2, "org.label-schema.usage.apptainer.version", PackageVersion)
        l4 == IF bundleRunSection(b, "help") /\ b.Recipe.Help.Script # ""
              THEN Put(Put(l3, "org.label-schema.usage", HelpPath),
                       "org.label-schema.usage.apptainer.runscript.help", HelpPath)
              ELSE l3
        l5 == IF exportsHeader(b.Opts.Update, b.Opts.Force)
              THEN PutAll(l4, headerLabels(b.Recipe.Header))
              ELSE l4
        l6 == IF b.Opts.Tag # "" /\ b.Opts.Digest # ""
              THEN Put(Put(l5, "org.opencontainers.image.base.name", b.Opts.Tag),
                       "org.opencontainers.image.base.digest", b.Opts.Digest)
              ELSE l5
    IN  Put(l6, "org.label-schema.build-arch", BuildArch)

\* Variant of takesRecipeValue that overwrites without force.
takesRecipeValueAlways(exists, force) == TRUE

\* Lines 243-253: a label of the recipe is set when the map has no such
\* key, or when force is set.
takesRecipeValue(exists, force) == ~exists \/ force

\* Lines 237-255: the labels of the recipe.
addRecipeLabels(labels, b) ==
    LET new == b.Recipe.Labels
    IN  IF bundleRunSection(b, "labels") /\ DOMAIN new # {}
        THEN [x \in DOMAIN labels \cup DOMAIN new |->
                 IF x \in DOMAIN new
                    /\ takesRecipeValue(x \in DOMAIN labels, b.Opts.Force)
                 THEN new[x] ELSE labels[x]]
        ELSE labels

\* insertLabelsJSON: the map that is written to labels.json.
labelsJSON(fs, b) ==
    addRecipeLabels(
        addBuildLabels(
            readBuildLabels(getExistingLabels(fs), fs, b.Opts.Force), b), b)

\* handleShebangScript: the interpreter line and the rest of the script.
handleShebangScript(s) ==
    LET own == HasPrefix(TrimSpace(s.Script), "#!")
        split == SplitN2(s.Script, "\n")
        shebang == IF own THEN TrimSpace(split[1]) ELSE "#!/bin/sh"
        script == IF own THEN (IF Len(split) = 2 THEN split[2] ELSE "")
                  ELSE s.Script
    IN  << IF s.Args # "" THEN shebang \o " " \o Split(s.Args, "#")[1]
           ELSE shebang,
           script >>

\* Lines 128-129 (139-140, 150-151): the file written for a script.
scriptFile(s) ==
    LET h == handleShebangScript(s) IN h[1] \o "\n\n" \o h[2] \o "\n"

\* A call of insertMetadata is in progress at the given step.
AtStep(step) == bundle.step = step

\* The step returned nil: insertMetadata goes on with the next one.
StepDone(step, next) ==
    bundle' = [bundle EXCEPT !.step = next, !.did = @ \cup {step}]

\* The mutant of StepFailed: after the error insertMetadata goes on with its
\* last step.
StepFailedGoesOn == bundle' = [bundle EXCEPT !.step = "inspect"]

\* The step returned an error: insertMetadata returns it.
StepFailed == bundle' = [bundle EXCEPT !.step = "failed"]

\* stage.insertMetadata is called for a bundle on the rootfs; the post
\* script of the build has run and may have left /.build.labels.
InsertMetadata_Call ==
    /\ bundle.step \in {"idle", "done", "failed"}
    /\ bundle.calls < MaxInsertions
    /\ \E call \in Calls :
         LET r == Recipes[call[1]]
             build == Builds[call[2]]
         IN
         /\ rootfs' = [rootfs EXCEPT !.buildLabels = build.BuildLabels]
         /\ bundle' = [step |-> "help",
                       calls |-> bundle.calls + 1,
                       did |-> {},
                       Recipe |-> r,
                       Opts |-> build.Opts,
                       existing |-> getExistingLabels(rootfs),
                       found |-> IF build.BuildLabels = <<>> THEN EmptyMap
                                 ELSE GetLabels(build.BuildLabels[1])]
    /\ UNCHANGED inserted
    /\ UNCHANGED <<BuildVars, FuncVars, DriverVars, FuseappsVars>>

\* insertHelpScript.
insertHelpScript ==
    /\ AtStep("help")
    /\ IF bundleRunSection(bundle, "help") /\ bundle.Recipe.Help.Script # ""
          /\ (rootfs.help = <<>> \/ bundle.Opts.Force)
       THEN \/ /\ rootfs' = [rootfs EXCEPT
                                !.help = <<bundle.Recipe.Help.Script \o "\n">>]
               /\ StepDone("help", "labels")
            \/ /\ StepFailed
               /\ UNCHANGED rootfs
       ELSE /\ StepDone("help", "labels")
            /\ UNCHANGED rootfs
    /\ UNCHANGED inserted
    /\ UNCHANGED <<BuildVars, FuncVars, DriverVars, FuseappsVars>>

\* insertLabelsJSON; out is the first call that fails.
insertLabelsJSON ==
    /\ AtStep("labels")
    /\ \E out \in {"ok", "readErr", "removeErr", "writeErr"} :
         /\ out = "removeErr" => rootfs.buildLabels # <<>>
         /\ CASE out = "ok" ->
                   /\ rootfs' = [rootfs EXCEPT
                                    !.buildLabels = <<>>,
                                    !.labels = <<labelsJSON(rootfs, bundle)>>]
                   /\ StepDone("labels", "definition")
              [] out = "writeErr" ->
                   /\ rootfs' = [rootfs EXCEPT !.buildLabels = <<>>]
                   /\ StepFailed
              [] OTHER ->
                   /\ UNCHANGED rootfs
                   /\ StepFailed
    /\ UNCHANGED inserted
    /\ UNCHANGED <<BuildVars, FuncVars, DriverVars, FuseappsVars>>

\* Variant of histIndex that always takes the first name.
histIndexFirst(files) == 0

\* Lines 188-195: the index in the name of the next history file is the
\* number of files of bootstrap_history.
histIndex(files) == Cardinality(files)

\* insertDefinition; out is the first call that fails.
insertDefinition ==
    /\ AtStep("definition")
    /\ \E out \in {"ok", "mkdirErr", "readDirErr", "renameErr", "writeErr"} :
         LET old == rootfs.singularity /= <<>>
             moved == [rootfs EXCEPT
                          !.histDir = TRUE,
                          !.history = Put(@, histIndex(DOMAIN rootfs.history),
                                          rootfs.singularity[1]),
                          !.singularity = <<>>]
             fs == IF old THEN moved ELSE rootfs
         IN  /\ out = "mkdirErr" => old /\ ~rootfs.histDir
             /\ out \in {"readDirErr", "renameErr"} => old
             /\ CASE out = "ok" ->
                       /\ rootfs' = [fs EXCEPT
                                        !.singularity = <<bundle.Recipe.FullRaw>>]
                       /\ inserted' = Append(inserted, bundle.Recipe.FullRaw)
                       /\ StepDone("definition", "environment")
                  [] out = "writeErr" ->
                       /\ rootfs' = fs
                       /\ StepFailed
                       /\ UNCHANGED inserted
                  [] out = "mkdirErr" ->
                       /\ StepFailed
                       /\ UNCHANGED <<rootfs, inserted>>
                  [] OTHER ->
                       /\ rootfs' = [rootfs EXCEPT !.histDir = TRUE]
                       /\ StepFailed
                       /\ UNCHANGED inserted
    /\ UNCHANGED <<BuildVars, FuncVars, DriverVars, FuseappsVars>>

\* insertEnvScript: the file is created, or the script is appended to it.
insertEnvScript ==
    /\ AtStep("environment")
    /\ LET script == bundle.Recipe.Environment.Script
       IN  IF bundleRunSection(bundle, "environment") /\ script # ""
           THEN \/ /\ rootfs' = [rootfs EXCEPT !.env =
                         IF @ = <<>> THEN <<"#!/bin/sh\n\n" \o script \o "\n">>
                         ELSE <<@[1] \o "\n" \o script \o "\n">>]
                   /\ StepDone("environment", "startscript")
                \/ /\ StepFailed
                   /\ UNCHANGED rootfs
           ELSE /\ StepDone("environment", "startscript")
                /\ UNCHANGED rootfs
    /\ UNCHANGED inserted
    /\ UNCHANGED <<BuildVars, FuncVars, DriverVars, FuseappsVars>>

\* insertStartScript, insertRunScript, insertTestScript: the same code for
\* the section, the script s and the file of the rootfs.
insertScript(section, next, s) ==
    /\ IF bundleRunSection(bundle, section) /\ s.Script # ""
       THEN \/ /\ rootfs' = [rootfs EXCEPT ![section] = <<scriptFile(s)>>]
               /\ StepDone(section, next)
            \/ /\ StepFailed
               /\ UNCHANGED rootfs
       ELSE /\ StepDone(section, next)
            /\ UNCHANGED rootfs
    /\ UNCHANGED inserted
    /\ UNCHANGED <<BuildVars, FuncVars, DriverVars, FuseappsVars>>

insertStartScript ==
    /\ AtStep("startscript")
    /\ insertScript("startscript", "runscript", bundle.Recipe.Startscript)

insertRunScript ==
    /\ AtStep("runscript")
    /\ insertScript("runscript", "test", bundle.Recipe.Runscript)

insertTestScript ==
    /\ AtStep("test")
    /\ insertScript("test", "inspect", bundle.Recipe.Test)

\* insertJSONInspectMetadata: the inspect command runs and its output is
\* stored in the bundle, or one of the calls fails.
insertJSONInspectMetadata ==
    /\ AtStep("inspect")
    /\ \/ /\ rootfs' = [rootfs EXCEPT !.inspect = TRUE]
          /\ StepDone("inspect", "done")
       \/ /\ StepFailed
          /\ UNCHANGED rootfs
    /\ UNCHANGED inserted
    /\ UNCHANGED <<BuildVars, FuncVars, DriverVars, FuseappsVars>>

\* The orchestrator is not running.
BuildIdle ==
    /\ conf = [Update |-> FALSE, Force |-> FALSE, NoCleanUp |-> FALSE,
               Format |-> "sandbox", ImgCacheNil |-> FALSE, Binds |-> <<>>,
               Sections |-> <<"all">>]
    /\ hostFiles = {}
    /\ destNoexec = FALSE
    /\ defs = <<>>
    /\ stages = <<>>
    /\ bundleDirs = {}
    /\ sandboxCopy = FALSE
    /\ pc = "idle"
    /\ cur = 0
    /\ attempt = 0
    /\ defers = <<>>
    /\ panicking = FALSE
    /\ sessionFiles = {}
    /\ umask = 18
    /\ nbOldumask = 0
    /\ oldumask = 0
    /\ sigChan = 0
    /\ hdl = "notStarted"
    /\ cleanAt = [g \in Goroutines |-> 0]
    /\ exited = FALSE
    /\ exitCode = 0
    /\ result = "none"
    /\ log = <<>>
    /\ failed = <<>>
    /\ path = <<>>
    /\ gets = 0
    /\ lastGet = "none"
    /\ packedAfter = "none"
    /\ cleanDone = {}
    /\ sigInFull = FALSE

InitMetadata == BuildIdle /\ MetadataInit /\ FuncIdle /\ DriverIdle /\ FuseappsIdle

NextMetadata ==
    \/ InsertMetadata_Call
    \/ insertHelpScript
    \/ insertLabelsJSON
    \/ insertDefinition
    \/ insertEnvScript
    \/ insertStartScript
    \/ insertRunScript
    \/ insertTestScript
    \/ insertJSONInspectMetadata

SpecMetadata == InitMetadata /\ [][NextMetadata]_vars

----------------------------------------------------------------------------
(* Properties of the metadata writer *)

\* The latest call of insertMetadata has written labels.json.
LabelsInserted == bundle.step # "idle" /\ "labels" \in bundle.did

\* The value of key k in map m: a sequence of length 0 (no such key) or 1.
ValueOf(m, k) == IF k \in DOMAIN m THEN <<m[k]>> ELSE <<>>

\* The labels of the file /.build.labels the latest call found.
FoundBuildLabels == bundle.found

\* The keys the build itself sets in the latest call.
AutoKeys ==
    {SchemaVersion, "org.label-schema.build-date",
     "org.label-schema.usage.apptainer.version", "org.label-schema.build-arch"}
    \cup (IF bundleRunSection(bundle, "help") /\ bundle.Recipe.Help.Script # ""
          THEN {"org.label-schema.usage",
                "org.label-schema.usage.apptainer.runscript.help"}
          ELSE {})
    \cup (IF ~bundle.Opts.Update \/ bundle.Opts.Force
          THEN { DeffilePrefix \o key : key \in DOMAIN bundle.Recipe.Header }
          ELSE {})
    \cup (IF bundle.Opts.Tag # "" /\ bundle.Opts.Digest # ""
          THEN {"org.opencontainers.image.base.name",
                "org.opencontainers.image.base.digest"}
          ELSE {})

\* The labels of the recipe are applied with force in the latest call.
RecipeForces(k) ==
    /\ bundle.Opts.Force
    /\ bundleRunSection(bundle, "labels")
    /\ k \in DOMAIN bundle.Recipe.Labels

\* C14 as stated: after the insertion every key of the labels of the recipe
\* has the value labels.json had for it before when there was one and force
\* is not set, and the value of the recipe otherwise.
C14_RecipeLabelOrExisting ==
    LabelsInserted =>
        \A k \in DOMAIN bundle.Recipe.Labels :
            ValueOf(rootfs.labels[1], k) =
                IF k \in DOMAIN bundle.existing /\ ~bundle.Opts.Force
                THEN <<bundle.existing[k]>>
                ELSE <<bundle.Recipe.Labels[k]>>

\* C14 amended: with the labels section selected, a key of the labels of
\* the recipe that already has a value when the recipe is merged (an
\* auto-label of the build, else a label of /.build.labels, else a label of
\* the former labels.json) keeps that value unless force is set; with force
\* set, or without such a value, it has the value of the recipe.  With the
\* labels section not selected the labels of the recipe are not applied.
C14_RecipeLabelOrMerged ==
    LabelsInserted =>
        \A k \in DOMAIN bundle.Recipe.Labels :
            LET earlier ==
                    IF k \in AutoKeys
                    THEN ValueOf(addBuildLabels(EmptyMap, bundle), k)
                    ELSE IF k \in DOMAIN FoundBuildLabels
                         THEN <<FoundBuildLabels[k]>>
                         ELSE ValueOf(bundle.existing, k)
            IN  ValueOf(rootfs.labels[1], k) =
                    IF ~bundleRunSection(bundle, "labels") THEN earlier
                    ELSE IF earlier # <<>> /\ ~bundle.Opts.Force THEN earlier
                    ELSE <<bundle.Recipe.Labels[k]>>

\* C14 amended happens: without force a key of the recipe that was in
\* labels.json kept the former value, and a key of the recipe that was in
\* /.build.labels only has the value of that file.
C14_Witness ==
    /\ LabelsInserted
    /\ ~bundle.Opts.Force
    /\ bundleRunSection(bundle, "labels")
    /\ \E k \in DOMAIN bundle.Recipe.Labels \cap DOMAIN bundle.existing :
         /\ k \notin DOMAIN FoundBuildLabels
         /\ rootfs.labels[1][k] = bundle.existing[k]
         /\ rootfs.labels[1][k] # bundle.Recipe.Labels[k]
    /\ \E k \in DOMAIN bundle.Recipe.Labels \cap DOMAIN FoundBuildLabels :
         /\ k \notin DOMAIN bundle.existing
         /\ rootfs.labels[1][k] = FoundBuildLabels[k]
         /\ rootfs.labels[1][k] # bundle.Recipe.Labels[k]

\* C15 as stated: after the insertion labels.json has schema-version 1.0
\* and, unless the build is an update without force, the value of every
\* header key under the deffile prefix, whatever the other labels are.
C15_AutoLabelsAlways ==
    LabelsInserted =>
        /\ ValueOf(rootfs.labels[1], SchemaVersion) = <<"1.0">>
        /\ (~bundle.Opts.Update \/ bundle.Opts.Force) =>
              \A key \in DOMAIN bundle.Recipe.Header :
                  ValueOf(rootfs.labels[1], DeffilePrefix \o key) =
                      <<bundle.Recipe.Header[key]>>

\* C15 amended: the same, except for a key the recipe declares as a label
\* while force is set and the labels section is selected: that key has the
\* value of the recipe.
C15_AutoLabelsUnlessForced ==
    LabelsInserted =>
        /\ ValueOf(rootfs.labels[1], SchemaVersion) =
              IF RecipeForces(SchemaVersion)
              THEN <<bundle.Recipe.Labels[SchemaVersion]>> ELSE <<"1.0">>
        /\ (~bundle.Opts.Update \/ bundle.Opts.Force) =>
              \A key \in DOMAIN bundle.Recipe.Header :
                  ValueOf(rootfs.labels[1], DeffilePrefix \o key) =
                      IF RecipeForces(DeffilePrefix \o key)
                      THEN <<bundle.Recipe.Labels[DeffilePrefix \o key]>>
                      ELSE <<bundle.Recipe.Header[key]>>

\* C15 amended happens: a build without force whose recipe declares the
\* schema version and a deffile key as labels wrote 1.0 and the header
\* value, and the former labels.json had another schema version.
C15_Witness ==
    /\ LabelsInserted
    /\ ~bundle.Opts.Force
    /\ ~bundle.Opts.Update
    /\ bundleRunSection(bundle, "labels")
    /\ SchemaVersion \in DOMAIN bundle.Recipe.Labels
    /\ SchemaVersion \in DOMAIN bundle.existing
    /\ bundle.existing[SchemaVersion] # "1.0"
    /\ rootfs.labels[1][SchemaVersion] = "1.0"
    /\ \E key \in DOMAIN bundle.Recipe.Header :
         /\ DeffilePrefix \o key \in DOMAIN bundle.Recipe.Labels
         /\ rootfs.labels[1][DeffilePrefix \o key] = bundle.Recipe.Header[key]

\* The keys that are both in the former labels.json and in /.build.labels
\* and that the build does not set itself.
SharedKeys ==
    (DOMAIN bundle.existing \cap DOMAIN FoundBuildLabels) \ AutoKeys

C17_DefinitionHistory ==
    LET k == Len(inserted)
        held == IF rootfs.singularity = <<>> THEN k ELSE k - 1
    IN  /\ rootfs.singularity # <<>> =>
              k >= 1 /\ rootfs.singularity[1] = inserted[k]
        /\ DOMAIN rootfs.history = 0..(held - 1)
        /\ \A j \in DOMAIN rootfs.history : rootfs.history[j] = inserted[j + 1]
        /\ (bundle.step # "idle" /\ "definition" \in bundle.did) =>
              rootfs.singularity # <<>>

\* C17 happens: the third insertion on a rootfs returned nil; the history
\* holds the two recipes inserted before, which differ.
C17_Witness ==
    /\ Len(inserted) = 3
    /\ bundle.step = "done"
    /\ rootfs.singularity = <<inserted[3]>>
    /\ DOMAIN rootfs.history = {0, 1}
    /\ rootfs.history[0] # rootfs.history[1]
    /\ rootfs.history[1] # inserted[3]

----------------------------------------------------------------------------
(* Part 3: functions studied alone.  input is drawn from a bounded set of   *)
(* arguments and one action applies the function to it.                     *)

\* Largest number of characters of a script body and of section args.
MaxScriptLen == 4
MaxArgsLen == 2

\* The strings of at most n characters of the alphabet.
RECURSIVE StringsUpTo(_, _)
StringsUpTo(alphabet, n) ==
    IF n = 0 THEN {""}
    ELSE LET shorter == StringsUpTo(alphabet, n - 1)
         IN  shorter \cup { str \o c : str \in shorter, c \in alphabet }

\* The scripts handed to handleShebangScript.
ShebangScripts ==
    [Args : StringsUpTo({"#", " ", "a"}, MaxArgsLen),
     Script : StringsUpTo({"#", "!", "\n", " ", "a"}, MaxScriptLen)]

InitShebang ==
    /\ BuildIdle
    /\ MetadataIdle
    /\ DriverIdle
    /\ FuseappsIdle
    /\ input \in ShebangScripts
    /\ output = <<>>

\* insertRunScript (insertStartScript, insertTestScript) with the section
\* selected: a script that is not empty is written to its file.
WriteScriptFile ==
    /\ output = <<>>
    /\ input.Script # ""
    /\ output' = <<scriptFile(input)>>
    /\ UNCHANGED input
    /\ UNCHANGED <<BuildVars, MetadataVars, DriverVars, FuseappsVars>>

NextShebang == WriteScriptFile

SpecShebang == InitShebang /\ [][NextShebang]_vars

\* C18 as stated: the file written for a script starts with a line that
\* begins with #!: the first line of the body when the body (leading white
\* space aside) begins with #!, else #!/bin/sh, followed in both cases by
\* the args up to their first #; the rest of the body follows.
C18_ShebangFirstLine ==
    output # <<>> =>
        LET body == TrimLeftSpace(input.Script)
            own == HasPrefix(body, "#!")
            bodyLines == SplitN2(body, "\n")
            interpreter == IF own THEN TrimSpace(bodyLines[1]) ELSE "#!/bin/sh"
            rest == IF ~own THEN input.Script
                    ELSE IF Len(bodyLines) = 2 THEN bodyLines[2] ELSE ""
            first == IF input.Args # ""
                     THEN interpreter \o " " \o Split(input.Args, "#")[1]
                     ELSE interpreter
        IN  /\ HasPrefix(output[1], "#!")
            /\ output[1] = first \o "\n\n" \o rest \o "\n"

----------------------------------------------------------------------------
(* The recipe parser, pkg/build/types/parser (unnamed/part_002) *)

\* Largest number of lines of a header and of sections of a recipe.
MaxHeaderLines == 3
MaxSections == 2

UpperCase == "ABCDEFGHIJKLMNOPQRSTUVWXYZ"
LowerCase == "abcdefghijklmnopqrstuvwxyz"

\* strings.ToLower.
LowerOf(c) ==
    IF \E i \in 1..Len(UpperCase) : Char(UpperCase, i) = c
    THEN Char(LowerCase, CHOOSE i \in 1..Len(UpperCase) : Char(UpperCase, i) = c)
    ELSE c
RECURSIVE ToLower(_)
ToLower(str) ==
    IF Len(str) = 0 THEN "" ELSE LowerOf(Char(str, 1)) \o ToLower(Tail(str))

\* strings.TrimLeft(str, c) for a cutset of one character.
RECURSIVE TrimLeft(_, _)
TrimLeft(str, c) ==
    IF Len(str) > 0 /\ Char(str, 1) = c THEN TrimLeft(Tail(str), c) ELSE str

\* strings.SplitN(str, sep, n), n >= 1.
RECURSIVE SplitN(_, _, _)
SplitN(str, sep, n) ==
    LET two == SplitN2(str, sep)
    IN  IF n = 1 THEN <<str>>
        ELSE IF Len(two) = 1 THEN two
        ELSE <<two[1]>> \o SplitN(two[2], sep, n - 1)

\* strings.Join(lines, "\n").
RECURSIVE JoinLines(_)
JoinLines(lines) ==
    IF Len(lines) = 0 THEN ""
    ELSE IF Len(lines) = 1 THEN lines[1]
    ELSE lines[1] \o "\n" \o JoinLines(Tail(lines))

IsDigit(c) == c \in {"0", "1", "2", "3", "4", "5", "6", "7", "8", "9"}

\* The regular expression \d+$ replaced by &n (lines 401-402).
RECURSIVE TrimRightDigits(_)
TrimRightDigits(str) ==
    IF Len(str) > 0 /\ IsDigit(Char(str, Len(str)))
    THEN TrimRightDigits(SubSeq(str, 1, Len(str) - 1)) ELSE str
replaceDigits(key) ==
    IF TrimRightDigits(key) # key THEN TrimRightDigits(key) \o "&n" ELSE key

errEmptyDefinition == "empty definition file"
errInvalidSection == "invalid section(s) specified"

validSections ==
    {"help", "setup", "files", "labels", "environment", "pre", "post",
     "runscript", "test", "startscript", "arguments"}

appSections ==
    {"appinstall", "applabels", "appfiles", "appenv", "apptest", "apphelp",
     "apprun", "appstart"}

validHeaders ==
    {"bootstrap", "from", "includecmd", "mirrorurl", "updateurl", "osversion",
     "include", "library", "registry", "namespace", "stage", "product", "user",
     "regcode", "productpgp", "registerurl", "modules", "otherurl&n",
     "fingerprints", "confurl", "setopt", "target", "frontend", "filename",
     "buildargs"}

\* Lines 400-409: the key is a keyword, or becomes one when its final
\* digits are replaced.
validHeader(key) ==
    \/ key \in validHeaders
    \/ replaceDigits(key) # key /\ replaceDigits(key) \in validHeaders

\* doHeader from line k on.  d.Header is nil when doHeader is called: the
\* assignment d.Header[keyCont] = valCont of line 372 panics.
RECURSIVE doHeaderFrom(_, _, _, _, _)
doHeaderFrom(toks, k, header, keyCont, valCont) ==
    IF k > Len(toks)
    THEN [err |-> "nil",
          Header |-> IF DOMAIN header # {} THEN <<header>> ELSE <<>>]
    ELSE
    LET line == TrimSpace(toks[k])
        trimLine == Split(line, "#")[1]
        fresh == Len(valCont) = 0
        linetoks == SplitN2(trimLine, ":")
        key == IF fresh THEN ToLower(TrimSpace(linetoks[1])) ELSE keyCont
        val == IF fresh THEN TrimSpace(linetoks[2])
               ELSE valCont \o TrimSpace(trimLine)
        cut == TrimSuffix(val, "\\")
    IN  IF line = "" \/ StringsIndex(line, "#") = 1
        THEN IF Len(keyCont) > 0
             THEN [err |-> "panic", Header |-> <<>>]
             ELSE doHeaderFrom(toks, k + 1, header, keyCont, valCont)
        ELSE IF fresh /\ Len(linetoks) = 1
        THEN [err |-> "header key had no val", Header |-> <<>>]
        ELSE IF HasSuffix(val, "\\")
        THEN doHeaderFrom(toks, k + 1, header, key,
                          IF HasSuffix(cut, "\\n")
                          THEN TrimSuffix(cut, "\\n") \o "\n" ELSE cut)
        ELSE IF ~validHeader(key)
        THEN [err |-> "invalid header keyword found", Header |-> <<>>]
        ELSE doHeaderFrom(toks, k + 1, Put(header, key, val),
                          IF fresh THEN keyCont ELSE "",
                          IF fresh THEN valCont ELSE "")

\* doHeader: the error and d.Header (nil: the empty sequence).
doHeader(h) == doHeaderFrom(Split(TrimSpace(h), "\n"), 1, EmptyMap, "", "")

\* The header lines of the model.
HeaderLines ==
    {"bootstrap: docker", "From: alpine", "otherurl2: http://x", "otherurl: y",
     "otherfoo: v", "from2: x", "nocolon", "# note", "", "include: yum \\",
     "otherfoo: v \\", "otherurl&n: z", "stage: one # final",
     "include: a\\n\\"}

\* The sequences of 1 to n elements of the set.
RECURSIVE SeqsUpTo(_, _)
SeqsUpTo(set, n) ==
    IF n = 0 THEN {<<>>}
    ELSE LET shorter == SeqsUpTo(set, n - 1)
         IN  shorter \cup { Append(sq, e) : sq \in shorter, e \in set }

InitHeader ==
    /\ BuildIdle
    /\ MetadataIdle
    /\ DriverIdle
    /\ FuseappsIdle
    /\ input \in SeqsUpTo(HeaderLines, MaxHeaderLines) \ {<<>>}
    /\ output = <<>>

\* doHeader is called with the header token of a definition file.
ParseHeader ==
    /\ output = <<>>
    /\ output' = <<doHeader(JoinLines(input))>>
    /\ UNCHANGED input
    /\ UNCHANGED <<BuildVars, MetadataVars, DriverVars, FuseappsVars>>

NextHeader == ParseHeader

SpecHeader == InitHeader /\ [][NextHeader]_vars

\* The keys the specification accepts: the keywords, and otherurl followed
\* by decimal digits.
StatedKey(key) ==
    \/ key \in validHeaders \ {"otherurl&n"}
    \/ /\ HasPrefix(key, "otherurl")
       /\ Len(key) > Len("otherurl")
       /\ TrimRightDigits(key) = "otherurl"

\* What the specification accepts from line k on: empty lines and comment
\* lines; lines with a colon and an accepted key; the lines that continue
\* a value that ends with a backslash.
RECURSIVE StatedAccepts(_, _, _)
StatedAccepts(lines, k, continues) ==
    IF k > Len(lines) THEN TRUE
    ELSE LET line == TrimSpace(lines[k])
             text == TrimSpace(Split(line, "#")[1])
             pair == SplitN2(text, ":")
         IN  IF line = "" \/ StringsIndex(line, "#") = 1
             THEN StatedAccepts(lines, k + 1, FALSE)
             ELSE IF continues
             THEN StatedAccepts(lines, k + 1, HasSuffix(text, "\\"))
             ELSE /\ Len(pair) = 2
                  /\ StatedKey(ToLower(TrimSpace(pair[1])))
                  /\ StatedAccepts(lines, k + 1, HasSuffix(text, "\\"))

\* C20 as stated: the parse of a header succeeds iff each of its lines that
\* is neither empty nor a comment has a colon and a key that, lower-cased,
\* is a keyword or otherurl followed by digits.
C20_HeaderAccepted ==
    output # <<>> => (output[1].err = "nil" <=> StatedAccepts(input, 1, FALSE))

\* getSectionName: the lower-cased first word of the line after its % signs.
getSectionName(line) == SplitN(ToLower(TrimLeft(line, "%")), " ", 2)[1]

\* The key under which the section of an app is stored as it would be were
\* it taken from the lower-cased line.
appKeyLowered(line) ==
    LET sectionSplit == SplitN(ToLower(TrimLeft(line, "%")), " ", 3)
    IN  sectionSplit[1] \o " " \o sectionSplit[2]

\* Lines 191-196: the key of the section of an app is joined from the first
\* two words of the line as it was written.
appKey(line) ==
    LET sectionSplit == SplitN(TrimLeft(line, "%"), " ", 3)
    IN  sectionSplit[1] \o " " \o sectionSplit[2]

\* strings.Trim(str, c) for a cutset of one character.
RECURSIVE TrimRight(_, _)
TrimRight(str, c) ==
    IF Len(str) > 0 /\ Char(str, Len(str)) = c
    THEN TrimRight(SubSeq(str, 1, Len(str) - 1), c) ELSE str
Trim(str, c) == TrimRight(TrimLeft(str, c), c)

\* The last position of the longest run of characters outside stop that
\* begins at position i (i - 1: the run is empty).
RECURSIVE runEnd(_, _, _)
runEnd(line, i, stop) ==
    IF i <= Len(line) /\ Char(line, i) \notin stop
    THEN runEnd(line, i + 1, stop) ELSE i - 1

SpaceOrQuote == {" ", "\t", "\n", "\r", "\"", "'"}

\* The last position of the match of fileSplitter that begins at position i
\* (0: none).  Its first alternative needs the braces {{ of a build
\* argument, which the lines of the model do not have; the second one is
\* [^\s"']+ or "([^"]*)" or '([^']*), the last without a closing quote.
matchEnd(line, i) ==
    LET c == Char(line, i)
        closing == { j \in (i + 1)..Len(line) : Char(line, j) = "\"" }
    IN  IF c \notin SpaceOrQuote THEN runEnd(line, i, SpaceOrQuote)
        ELSE IF c = "\"" /\ closing # {}
        THEN CHOOSE j \in closing : \A h \in closing : j <= h
        ELSE IF c = "'" THEN runEnd(line, i + 1, {"'"})
        ELSE 0

\* fileSplitter.FindAllString(line, -1) from position i on.
RECURSIVE FindAllString(_, _)
FindAllString(line, i) ==
    IF i > Len(line) THEN <<>>
    ELSE IF matchEnd(line, i) = 0 THEN FindAllString(line, i + 1)
    ELSE <<SubSeq(line, i, matchEnd(line, i))>>
         \o FindAllString(line, matchEnd(line, i) + 1)

\* Lines 157-160: the lines of a files section that are neither empty nor
\* comments.
RECURSIVE fileLines(_)
fileLines(subs) ==
    IF Len(subs) = 0 THEN <<>>
    ELSE LET line == TrimSpace(subs[1])
         IN  IF line = "" \/ StringsIndex(line, "#") = 1
             THEN fileLines(Tail(subs))
             ELSE <<line>> \o fileLines(Tail(subs))

\* Lines 161-173: the source and the destination of a line.
fileTransport(line) ==
    LET lineSubs == FindAllString(line, 1)
    IN  [Src |-> Trim(TrimSpace(lineSubs[1]), "\""),
         Dst |-> IF Len(lineSubs) < 2 THEN ""
                 ELSE Trim(TrimSpace(lineSubs[2]), "\"")]

\* Lines 164-165: lineSubs[0] of a line without a match is out of range.
filesPanic(subs) ==
    \E i \in 1..Len(fileLines(subs)) : FindAllString(fileLines(subs)[i], 1) = <<>>

fileTransports(subs) ==
    [i \in 1..Len(fileLines(subs)) |-> fileTransport(fileLines(subs)[i])]

\* The mutant of appendFiles: every section is a block of its own.
appendFilesApart(files, f) == Append(files, f)

\* Lines 177-186: the transports join the block of the same arguments.
appendFiles(files, f) ==
    IF \E i \in 1..Len(files) : files[i].Args = f.Args
    THEN LET i == CHOOSE j \in 1..Len(files) :
                      /\ files[j].Args = f.Args
                      /\ \A h \in 1..(j - 1) : files[h].Args # f.Args
         IN  [files EXCEPT ![i].Files = @ \o f.Files]
    ELSE Append(files, f)

NoScript2 == [Args |-> "", Script |-> ""]

\* parseTokenSection on the sections, files and app order parsed so far.
parseTokenSection(tok, acc) ==
    LET split == SplitN(tok, "\n", 2)
        key == getSectionName(split[1])
        two == SplitN(TrimLeft(split[1], "%"), " ", 2)
        three == SplitN(TrimLeft(split[1], "%"), " ", 3)
        stored == IF key \in appSections THEN appKey(split[1]) ELSE key
        old == IF stored \in DOMAIN acc.sections
               THEN acc.sections[stored] ELSE NoScript2
        args == IF key \notin appSections /\ Len(two) = 2
                THEN two[2] ELSE old.Args
    IN  IF Len(split) # 2
        THEN [acc EXCEPT !.err = "could not be split into section name and body"]
        ELSE IF key = "files" /\ filesPanic(Split(TrimSpace(split[2]), "\n"))
        THEN [acc EXCEPT !.err = "panic"]
        ELSE IF key = "files"
        THEN [acc EXCEPT !.files =
                 appendFiles(@, [Args |-> IF Len(two) = 2 THEN two[2] ELSE "",
                                 Files |-> fileTransports(
                                     Split(TrimSpace(split[2]), "\n"))])]
        ELSE IF key \in appSections /\ Len(three) < 2
        THEN [acc EXCEPT !.err =
                 "could not be split into section name and app name"]
        ELSE [acc EXCEPT
                 !.sections = Put(@, stored,
                                  [Args |-> args,
                                   Script |-> old.Script \o split[2]]),
                 !.appOrder = IF key \in appSections
                                 /\ \A i \in 1..Len(@) : @[i] # three[2]
                              THEN Append(@, three[2]) ELSE @]

RECURSIVE parseTokens(_, _)
parseTokens(toks, acc) ==
    IF Len(toks) = 0 \/ acc.err # "nil" THEN acc
    ELSE parseTokens(Tail(toks), parseTokenSection(toks[1], acc))

NoDefinition ==
    [err |-> "nil", Sections |-> {}, Header |-> <<>>, Scripts |-> <<>>,
     Files |-> <<>>, CustomData |-> <<>>, AppOrder |-> <<>>]

\* populateDefinition: the error, the Sections of an InvalidSectionError and
\* the fields of the definition (nil: the empty sequence).
populateDefinition(acc, header) ==
    LET custom == [k \in DOMAIN acc.sections \ validSections |->
                       acc.sections[k].Script]
        keys == { k \in DOMAIN custom : Split(k, " ")[1] \notin appSections }
        d == [NoDefinition EXCEPT
                 !.Header = header,
                 !.Scripts = <<[k \in validSections \ {"files"} |->
                                   IF k \in DOMAIN acc.sections
                                   THEN acc.sections[k] ELSE NoScript2]>>,
                 !.Files = acc.files,
                 !.CustomData = IF DOMAIN custom # {} THEN <<custom>> ELSE <<>>]
        isEmpty == /\ header = <<>>
                   /\ \A k \in DOMAIN d.Scripts[1] : d.Scripts[1][k] = NoScript2
                   /\ acc.files = <<>>
                   /\ d.CustomData = <<>>
                   /\ acc.appOrder = <<>>
    IN  IF keys # {}
        THEN [d EXCEPT !.err = errInvalidSection, !.Sections = keys]
        ELSE IF isEmpty
        THEN [d EXCEPT !.err = errEmptyDefinition,
                       !.AppOrder = acc.appOrder]
        ELSE [d EXCEPT !.AppOrder = acc.appOrder]

\* doSections on the tokens of scanDefinitionFile: the first token is the
\* header when it does not begin with a % sign.
doSections(toks) ==
    LET first == TrimSpace(toks[1])
        isHeader == first # "" /\ Char(first, 1) # "%"
        h == IF isHeader THEN doHeader(first) ELSE [err |-> "nil", Header |-> <<>>]
        rest == IF first = "" \/ isHeader THEN Tail(toks) ELSE <<first>> \o Tail(toks)
        acc == parseTokens(rest, [err |-> "nil", sections |-> EmptyMap,
                                  files |-> <<>>, appOrder |-> <<>>])
    IN  IF h.err = "panic" THEN [NoDefinition EXCEPT !.err = "panic"]
        ELSE IF h.err # "nil"
        THEN [NoDefinition EXCEPT !.err = "failed to parse deffile header"]
        ELSE IF acc.err # "nil" THEN [NoDefinition EXCEPT !.err = acc.err]
        ELSE populateDefinition(acc, h.Header)

\* ParseDefinitionFile on the tokens of the recipe.
ParseDefinitionFile(toks) ==
    IF Len(toks) = 0
    THEN [NoDefinition EXCEPT
             !.err = errEmptyDefinition]
    ELSE doSections(toks)

\* The headers and the section lines of the recipes of the model, and the
\* body of every section.
RecipeHeaders == {<<>>, <<"bootstrap: docker\nfrom: alpine\n">>, <<"nocolon\n">>, <<"# note\n">>}

SectionLines ==
    {"%post", "%POST -e", "%extra", "%Other thing", "%appinstall foo",
     "%AppInstall foo", "%apprun foo bar", "%apprun bar", "%apphelp",
     "%files /opt", "%labels"}

SectionBody == "name value\n"

\* The tokens scanDefinitionFile returns for a recipe: its header, when it
\* has one, and each section line with the lines that follow it.
Tokens(in) ==
    in.header \o [i \in 1..Len(in.sections) |->
                     in.sections[i] \o "\n" \o SectionBody]

InitRecipe ==
    /\ BuildIdle
    /\ MetadataIdle
    /\ DriverIdle
    /\ FuseappsIdle
    /\ input \in [header : RecipeHeaders,
                  sections : SeqsUpTo(SectionLines, MaxSections)]
    /\ output = <<>>

ParseRecipe ==
    /\ output = <<>>
    /\ output' = <<ParseDefinitionFile(Tokens(input))>>
    /\ UNCHANGED input
    /\ UNCHANGED <<BuildVars, MetadataVars, DriverVars, FuseappsVars>>

NextRecipe == ParseRecipe

SpecRecipe == InitRecipe /\ [][NextRecipe]_vars

\* The section lines of the recipe the parser takes for sections of apps
\* with an app name, and the other lines that are not of a known section.
AppLines ==
    { i \in 1..Len(input.sections) :
        /\ getSectionName(input.sections[i]) \in appSections
        /\ Len(SplitN(TrimLeft(input.sections[i], "%"), " ", 3)) >= 2 }
UnknownLines ==
    { i \in 1..Len(input.sections) :
        getSectionName(input.sections[i]) \notin validSections \cup appSections }

Parsed ==
    /\ output # <<>>
    /\ output[1].err \in {"nil", "invalid section(s) specified"}

\* C19 as stated: the Sections of the InvalidSectionError are exactly the
\* keys of the sections that are neither known sections nor sections of
\* apps, there is no such error when there are none, and the sections of
\* apps are in CustomData under their key.
C19_InvalidSections ==
    Parsed =>
        /\ output[1].err = "invalid section(s) specified" <=> UnknownLines # {}
        /\ output[1].Sections =
               { getSectionName(input.sections[i]) : i \in UnknownLines }
        /\ \A i \in AppLines :
               /\ output[1].CustomData # <<>>
               /\ appKeyLowered(input.sections[i]) \in DOMAIN output[1].CustomData[1]

\* The same for the recipes whose app section names are written in lower case.
AppLinesLower ==
    \A i \in AppLines : appKey(input.sections[i]) = appKeyLowered(input.sections[i])
C19_LowerCase == AppLinesLower => C19_InvalidSections

----------------------------------------------------------------------------
(* Continuation of header values *)

\* The key and the value of a header line, without its comment.
LineText(line) == TrimSpace(Split(TrimSpace(line), "#")[1])
LineKey(line) == ToLower(TrimSpace(SplitN(LineText(line), ":", 2)[1]))
LineVal(line) == TrimSpace(SplitN(LineText(line), ":", 2)[2])

IsBlank(line) == TrimSpace(line) = ""
IsComment(line) == StringsIndex(TrimSpace(line), "#") = 1

\* The piece of the value a line that ends with a backslash gives: a literal
\* \n before the backslash is a newline.
Piece(val) ==
    LET cut == TrimSuffix(val, "\\")
    IN  IF HasSuffix(cut, "\\n") THEN TrimSuffix(cut, "\\n") \o "\n" ELSE cut

\* The header begins with a line of an accepted key whose value ends with a
\* backslash, and ends with the line that continues it; the lines in
\* between, if any, are blank.
Continued ==
    /\ Len(input) >= 2
    /\ ~IsBlank(input[1]) /\ ~IsComment(input[1])
    /\ Len(SplitN(LineText(input[1]), ":", 2)) = 2
    /\ StatedKey(LineKey(input[1]))
    /\ HasSuffix(LineVal(input[1]), "\\")
    /\ Len(Piece(LineVal(input[1]))) > 0
    /\ \A i \in 2..(Len(input) - 1) : IsBlank(input[i])
    /\ ~IsBlank(input[Len(input)]) /\ ~IsComment(input[Len(input)])
    /\ ~HasSuffix(LineText(input[Len(input)]), "\\")

ContinuedValue == Piece(LineVal(input[1])) \o LineText(input[Len(input)])

\* C21 as stated: a value that ends with a backslash is continued with the
\* next line that is not blank; blank lines in between do not make the
\* parse fail, and the value of the key is the concatenation of the pieces,
\* a literal \n before the backslash being a newline.
C21_Continuation ==
    (output # <<>> /\ Continued) =>
        /\ output[1].err = "nil"
        /\ output[1].Header # <<>>
        /\ LineKey(input[1]) \in DOMAIN output[1].Header[1]
        /\ output[1].Header[1][LineKey(input[1])] = ContinuedValue

\* The same for the headers that have no blank line inside the continuation.
C21_Adjacent == Len(input) = 2 => C21_Continuation

----------------------------------------------------------------------------
(* The files sections of a recipe *)

\* Largest number of files sections of a recipe.
MaxFilesSections == 3

FilesLines == {"%files", "%FILES", "%files from build"}

FilesBodies ==
    {"a b\n", "\"a b\" c/d\n", "'a b' c/d\n", "x\n# note\n\n  y   z w\n"}

InitFiles ==
    /\ BuildIdle
    /\ MetadataIdle
    /\ DriverIdle
    /\ FuseappsIdle
    /\ input \in SeqsUpTo([line : FilesLines, body : FilesBodies],
                          MaxFilesSections) \ {<<>>}
    /\ output = <<>>

\* ParseDefinitionFile on a recipe of files sections.
ParseFiles ==
    /\ output = <<>>
    /\ output' = <<ParseDefinitionFile(
                      [i \in 1..Len(input) |->
                          input[i].line \o "\n" \o input[i].body])>>
    /\ UNCHANGED input
    /\ UNCHANGED <<BuildVars, MetadataVars, DriverVars, FuseappsVars>>

NextFiles == ParseFiles

SpecFiles == InitFiles /\ [][NextFiles]_vars

\* The arguments of a files section and the transports of its body.
ArgsOf(sec) ==
    LET two == SplitN(TrimLeft(sec.line, "%"), " ", 2)
    IN  IF Len(two) = 2 THEN two[2] ELSE ""
TransportsOf(sec) == fileTransports(Split(TrimSpace(sec.body), "\n"))

\* The transports of the sections from k on that have the arguments.
RECURSIVE TransportsWith(_, _)
TransportsWith(args, k) ==
    IF k > Len(input) THEN <<>>
    ELSE (IF ArgsOf(input[k]) = args THEN TransportsOf(input[k]) ELSE <<>>)
         \o TransportsWith(args, k + 1)

FirstWith(args) ==
    CHOOSE k \in 1..Len(input) :
        /\ ArgsOf(input[k]) = args
        /\ \A h \in 1..(k - 1) : ArgsOf(input[h]) # args

FilesParsed == output # <<>> /\ output[1].err = "nil"

\* C22: the files list has one block for each of the arguments of the files
\* sections, the blocks are in the order in which their arguments appear
\* first, and the transports of a block are those of the sections of its
\* arguments, in the order of the recipe.
C22_FilesMerged ==
    FilesParsed =>
        LET F == output[1].Files
        IN  /\ \A i, j \in 1..Len(F) : F[i].Args = F[j].Args => i = j
            /\ { F[i].Args : i \in 1..Len(F) }
                   = { ArgsOf(input[k]) : k \in 1..Len(input) }
            /\ \A i, j \in 1..Len(F) :
                   i < j => FirstWith(F[i].Args) < FirstWith(F[j].Args)
            /\ \A i \in 1..Len(F) : F[i].Files = TransportsWith(F[i].Args, 1)

\* Two sections of the same arguments with a section of other arguments
\* between them have been parsed into two blocks.
C22_Witness ==
    /\ FilesParsed
    /\ Len(input) = 3
    /\ ArgsOf(input[1]) = ArgsOf(input[3])
    /\ ArgsOf(input[1]) # ArgsOf(input[2])
    /\ input[1].body # input[3].body
    /\ Len(output[1].Files) = 2
    /\ Len(output[1].Files[1].Files) > Len(TransportsOf(input[1]))

\* The tokens of a line as the specification describes them: tokens are
\* separated by white space, and a token in double quotes or in single
\* quotes is one token, without its quotes.
RECURSIVE StatedTokens(_, _)
StatedTokens(line, i) ==
    LET c == Char(line, i)
        closing == { j \in (i + 1)..Len(line) : Char(line, j) = c }
        close == CHOOSE j \in closing : \A h \in closing : j <= h
        last == runEnd(line, i, {" ", "\t", "\n", "\r"})
    IN  IF i > Len(line) THEN <<>>
        ELSE IF IsSpace(c) THEN StatedTokens(line, i + 1)
        ELSE IF c \in {"\"", "'"} /\ closing # {}
        THEN <<SubSeq(line, i + 1, close - 1)>> \o StatedTokens(line, close + 1)
        ELSE <<SubSeq(line, i, last)>> \o StatedTokens(line, last + 1)

StatedTransport(line) ==
    LET tokens == StatedTokens(line, 1)
    IN  [Src |-> tokens[1], Dst |-> IF Len(tokens) < 2 THEN "" ELSE tokens[2]]

StatedTransports(sec) ==
    LET lines == fileLines(Split(TrimSpace(sec.body), "\n"))
    IN  [i \in 1..Len(lines) |-> StatedTransport(lines[i])]

\* C23 as stated: a token in double quotes or in single quotes is one token,
\* with its spaces and without its quotes; the first token of a line is the
\* source and the second, if any, the destination.
C23_QuotedTokens ==
    (FilesParsed /\ Len(input) = 1) =>
        output[1].Files[1].Files = StatedTransports(input[1])

\* The same for the bodies without single quotes.
NoSingleQuote ==
    \A k \in 1..Len(input) : StringsIndex(input[k].body, "'") = 0
C23_DoubleQuotes == NoSingleQuote => C23_QuotedTokens

----------------------------------------------------------------------------
(* Recipes of several stages: All and MakeAllDefs *)

\* Largest number of pieces of the text of a recipe.
MaxPieces == 2

\* bufio.ScanLines over the whole text: the lines without their ends.
scanLines(raw) ==
    LET pieces == Split(raw, "\n")
        lines == IF pieces[Len(pieces)] = ""
                 THEN SubSeq(pieces, 1, Len(pieces) - 1) ELSE pieces
    IN  [i \in 1..Len(lines) |-> TrimSuffix(lines[i], "\r")]

\* Lines 86-92: the first word of the line begins with a % sign.
isSectionLine(line) == HasPrefix(TrimLeftSpace(line), "%")

\* scanDefinitionFile: the tokens of the lines from k on, token being the
\* one under construction.  A section line ends the token before it.
RECURSIVE scanFrom(_, _, _)
scanFrom(lines, k, token) ==
    IF k > Len(lines) THEN (IF k = 1 THEN <<>> ELSE <<token>>)
    ELSE IF isSectionLine(lines[k]) /\ k > 1
    THEN <<token>> \o scanFrom(lines, k + 1, lines[k] \o "\n")
    ELSE scanFrom(lines, k + 1, token \o lines[k] \o "\n")

scanDefinitionFile(raw) == scanFrom(scanLines(raw), 1, "")

\* ParseDefinitionFile on the bytes of a reader: d.Raw and d.FullRaw are the
\* bytes read.
ParseDefinitionBytes(raw) ==
    ("Raw" :> raw @@ "FullRaw" :> raw) @@ ParseDefinitionFile(scanDefinitionFile(raw))

\* Lines 466-467: the offsets of the matches of (?mi)^bootstrap: .
bootstrapOffsets(raw) ==
    { i \in 1..Len(raw) :
        /\ i = 1 \/ Char(raw, i - 1) = "\n"
        /\ i + Len("bootstrap:") - 1 <= Len(raw)
        /\ ToLower(SubSeq(raw, i, i + Len("bootstrap:") - 1)) = "bootstrap:" }

RECURSIVE Sorted(_)
Sorted(set) ==
    IF set = {} THEN <<>>
    ELSE LET least == CHOOSE x \in set : \A y \in set : x <= y
         IN  <<least>> \o Sorted(set \ {least})

\* Lines 469-480: the text before the first match, then one slice for each
\* match, from the match to the next one.
splitBuf(raw) ==
    LET offsets == Sorted(bootstrapOffsets(raw))
        ends == [i \in 1..Len(offsets) |->
                    IF i < Len(offsets) THEN offsets[i + 1] - 1 ELSE Len(raw)]
    IN  <<SubSeq(raw, 1, IF Len(offsets) = 0 THEN Len(raw) ELSE offsets[1] - 1)>>
        \o [i \in 1..Len(offsets) |-> SubSeq(raw, offsets[i], ends[i])]

\* The mutant of skipsError: no error of a slice is passed over.
skipsErrorNever(err) == FALSE

\* Lines 493-495: the error of a slice that parsed to the empty definition
\* is passed over.
skipsError(err) == err = errEmptyDefinition

\* Lines 487-502: what the loop does with the definition d of one slice,
\* rest being the result of the slices after it.
stageOf(raw, slice, d, rest) ==
    IF Len(slice) = 0 THEN rest
    ELSE IF d.err # "nil" /\ skipsError(d.err) THEN rest
    ELSE IF d.err # "nil" THEN [err |-> d.err, found |-> <<>>]
    ELSE IF rest.err # "nil" THEN rest
    ELSE [err |-> "nil",
          found |-> <<[d EXCEPT !.FullRaw = raw]>> \o rest.found]

\* Lines 487-502: the stages of the slices from k on.
RECURSIVE stagesFrom(_, _, _)
stagesFrom(raw, slices, k) ==
    IF k > Len(slices) THEN [err |-> "nil", found |-> <<>>]
    ELSE stageOf(raw, slices[k], ParseDefinitionBytes(slices[k]),
                 stagesFrom(raw, slices, k + 1))

\* Lines 504-508: All fails when the loop failed or found no stage.
allResult(r) ==
    IF r.err # "nil" THEN r
    ELSE IF Len(r.found) = 0
    THEN [err |-> "no stages found in definition file", found |-> <<>>]
    ELSE r

\* All on the bytes of a reader.
All(raw) == allResult(stagesFrom(raw, splitBuf(raw), 1))

\* bytes.Index: the first position of sub in str (0: none).
IndexSub(str, sub) ==
    LET at == { i \in 1..(Len(str) - Len(sub) + 1) :
                  SubSeq(str, i, i + Len(sub) - 1) = sub }
    IN  IF at = {} THEN 0 ELSE CHOOSE i \in at : \A j \in at : i <= j

\* args.ReadDefaults: the name=value lines of the arguments section.
RECURSIVE defaultsFrom(_, _)
defaultsFrom(lines, k) ==
    IF k > Len(lines) THEN EmptyMap
    ELSE LET line == TrimSpace(lines[k])
             pair == SplitN(line, "=", 2)
         IN  IF line = "" \/ StringsIndex(line, "#") = 1 \/ Len(pair) < 2
             THEN defaultsFrom(lines, k + 1)
             ELSE PutAll((TrimSpace(pair[1]) :> TrimSpace(pair[2])),
                         defaultsFrom(lines, k + 1))
ReadDefaults(def) == defaultsFrom(Split(def.Scripts[1]["arguments"].Script, "\n"), 1)

\* args.NewReader: every {{ name }} of the text is replaced by the value of
\* the caller, else by the default; the names of the caller that were used
\* are recorded.  A name without a value is an error when strict, else it is
\* left as it is.
RECURSIVE argsNewReader(_, _, _, _)
argsNewReader(raw, buildArgsMap, defaultArgsMap, strict) ==
    LET open == IndexSub(raw, "{{")
        after == SubSeq(raw, open + 2, Len(raw))
        close == IndexSub(after, "}}")
        name == TrimSpace(SubSeq(after, 1, close - 1))
        before == SubSeq(raw, 1, open - 1)
        rest == argsNewReader(SubSeq(after, close + 2, Len(after)),
                              buildArgsMap, defaultArgsMap, strict)
    IN  IF open = 0 \/ close = 0
        THEN [err |-> "nil", out |-> raw, consumed |-> {}]
        ELSE IF name \in DOMAIN buildArgsMap
        THEN [rest EXCEPT !.out = before \o buildArgsMap[name] \o @,
                          !.consumed = @ \cup {name}]
        ELSE IF name \in DOMAIN defaultArgsMap
        THEN [rest EXCEPT !.out = before \o defaultArgsMap[name] \o @]
        ELSE IF strict
        THEN [err |-> "build var is not defined", out |-> "", consumed |-> {}]
        ELSE [rest EXCEPT !.out = SubSeq(raw, 1, open + 1) \o
                                  SubSeq(after, 1, close + 1) \o @]

\* types.NewDefinitionFromURI: the definition of a URI, of the header only.
NewDefinitionFromURI(scheme, ref) ==
    ("Raw" :> "" @@ "FullRaw" :> "")
    @@ [NoDefinition EXCEPT !.Header = <<("bootstrap" :> scheme @@ "from" :> ref)>>]

\* build.go lines 470-476: the definition parsed again is kept unless it or
\* a later definition fails.
revisedStage(reader, revisedDef, rest) ==
    IF revisedDef.err # "nil"
    THEN [err |-> revisedDef.err, found |-> <<>>, consumed |-> {}]
    ELSE IF rest.err # "nil" THEN rest
    ELSE [err |-> "nil", found |-> <<revisedDef>> \o rest.found,
          consumed |-> reader.consumed \cup rest.consumed]

\* build.go lines 465-476: the text the reader gives is parsed again.
revisedWith(reader, rest) ==
    IF reader.err # "nil"
    THEN [err |-> reader.err, found |-> <<>>, consumed |-> {}]
    ELSE revisedStage(reader, ParseDefinitionBytes(reader.out), rest)

\* build.go lines 458-476: the definitions from k on, parsed again after
\* the build arguments have been put in.
RECURSIVE revisedFrom(_, _, _, _)
revisedFrom(defsPreBuildArgs, k, buildArgsMap, strict) ==
    IF k > Len(defsPreBuildArgs) THEN [err |-> "nil", found |-> <<>>, consumed |-> {}]
    ELSE revisedWith(argsNewReader(defsPreBuildArgs[k].Raw, buildArgsMap,
                                   ReadDefaults(defsPreBuildArgs[k]), strict),
                     revisedFrom(defsPreBuildArgs, k + 1, buildArgsMap, strict))

RECURSIVE ConcatRaw(_)
ConcatRaw(revisedDefs) ==
    IF Len(revisedDefs) = 0 THEN ""
    ELSE revisedDefs[1].Raw \o ConcatRaw(Tail(revisedDefs))

\* The mutant of fullRawOf: the text of the first definition.
fullRawFirst(revisedDefs) == revisedDefs[1].Raw

\* build.go lines 478-486: the texts of the definitions, one after another.
fullRawOf(revisedDefs) == ConcatRaw(revisedDefs)

\* What MakeAllDefs returns when it has no definition and no error.
NoDefs == [err |-> "nil", found |-> <<>>, unused |-> {}]

\* build.go lines 478-493: the definitions parsed again get the text of all
\* of them; the arguments no definition used are returned.
revisedDefsOf(revised, buildArgsMap) ==
    IF revised.err # "nil" THEN [NoDefs EXCEPT !.err = revised.err]
    ELSE [NoDefs EXCEPT
             !.found = [i \in 1..Len(revised.found) |->
                           [revised.found[i] EXCEPT
                               !.FullRaw = fullRawOf(revised.found)]],
             !.unused = DOMAIN buildArgsMap \ revised.consumed]

\* build.go lines 451-493: the definitions of a file, parsed being what All
\* returned for it.
fileDefs(parsed, buildArgsMap, strict) ==
    IF parsed.err = "panic" THEN [NoDefs EXCEPT !.err = "panic"]
    ELSE IF parsed.err # "nil"
    THEN [NoDefs EXCEPT !.err = "while parsing definition"]
    ELSE revisedDefsOf(revisedFrom(parsed.found, 1, buildArgsMap, strict),
                       buildArgsMap)

\* MakeAllDefs: the error, the definitions and the unused arguments (nil:
\* the empty set).  kind is what the spec names: a URI, an image or a
\* sandbox, a file of the given text, or a file that cannot be opened.
MakeAllDefs(kind, raw, buildArgsMap, strict) ==
    IF kind = "uri"
    THEN [NoDefs EXCEPT !.found = <<NewDefinitionFromURI("docker", "alpine")>>]
    ELSE IF kind = "image"
    THEN [NoDefs EXCEPT !.found = <<NewDefinitionFromURI("localimage", "spec")>>]
    ELSE IF kind = "missing" THEN [NoDefs EXCEPT !.err = "unable to open file"]
    ELSE fileDefs(All(raw), buildArgsMap, strict)

\* The pieces of the texts of the model: recipes of one stage, with and
\* without a header, with build arguments, with an unknown section or with
\* a bad header, a comment line, a header with an empty line after a
\* continued value, and a files section with a line of one double quote.
Pieces ==
    <<"Bootstrap: docker\nFrom: a\n%post\ntrue\n",
      "bootstrap: library\nStage: two\n",
      "# note\nBootStrap: scratch\n%files\na b\n",
      "# note\n",
      "%extra\nx\n",
      "nocolon\n",
      "%post\ntrue\n",
      "Bootstrap: docker\nFrom: {{ v }}\n",
      "Bootstrap: docker\nFrom: {{ w }}\n%arguments\nw=3\n",
      "Bootstrap: docker\nFrom: al\\\n\npine\n",
      "Bootstrap: docker\n%files\n\"\n">>

BuildArgsMaps == {EmptyMap, ("v" :> "1"), ("v" :> "1" @@ "w" :> "2")}

RECURSIVE Concat(_)
Concat(texts) == IF Len(texts) = 0 THEN "" ELSE texts[1] \o Concat(Tail(texts))

\* The text of the file of the input.
RawOf(in) == Concat([i \in 1..Len(in.pieces) |-> Pieces[in.pieces[i]]])

InitDefs ==
    /\ BuildIdle
    /\ MetadataIdle
    /\ DriverIdle
    /\ FuseappsIdle
    /\ input \in [kind : {"file"},
                  pieces : SeqsUpTo(1..Len(Pieces), MaxPieces),
                  args : BuildArgsMaps, strict : BOOLEAN]
              \cup [kind : {"uri", "image", "missing"}, pieces : {<<>>},
                    args : BuildArgsMaps, strict : {FALSE}]
    /\ output = <<>>

\* parser.All on the file.
ParseAll ==
    /\ output = <<>>
    /\ input.kind = "file" /\ input.args = EmptyMap /\ ~input.strict
    /\ output' = <<("op" :> "All") @@ All(RawOf(input))>>
    /\ UNCHANGED input
    /\ UNCHANGED <<BuildVars, MetadataVars, DriverVars, FuseappsVars>>

\* MakeAllDefs on the spec.
MakeAllDefs_Call ==
    /\ output = <<>>
    /\ output' = <<("op" :> "MakeAllDefs")
                   @@ MakeAllDefs(input.kind, RawOf(input), input.args,
                                  input.strict)>>
    /\ UNCHANGED input
    /\ UNCHANGED <<BuildVars, MetadataVars, DriverVars, FuseappsVars>>

\* parser.ParseDefinitionFile on the file.
ParseOne ==
    /\ output = <<>>
    /\ input.kind = "file" /\ input.args = EmptyMap /\ ~input.strict
    /\ output' = <<("op" :> "ParseDefinitionFile")
                   @@ ParseDefinitionBytes(RawOf(input))>>
    /\ UNCHANGED input
    /\ UNCHANGED <<BuildVars, MetadataVars, DriverVars, FuseappsVars>>

NextDefs == ParseAll \/ ParseOne \/ MakeAllDefs_Call

SpecDefs == InitDefs /\ [][NextDefs]_vars

\* The text is a recipe of one stage: it parses and its header names the
\* bootstrap agent.
IsStageRecipe(text) ==
    LET d == ParseDefinitionBytes(text)
    IN  /\ d.err = "nil"
        /\ d.Header # <<>>
        /\ "bootstrap" \in DOMAIN d.Header[1]

\* The input is the concatenation of one or more recipes of one stage.
AllRecipes ==
    /\ input.kind = "file"
    /\ Len(input.pieces) >= 1
    /\ \A i \in 1..Len(input.pieces) : IsStageRecipe(Pieces[input.pieces[i]])

\* No recipe of the input has text before its bootstrap line.
NoPreamble ==
    \A i \in 1..Len(input.pieces) :
        HasPrefix(ToLower(Pieces[input.pieces[i]]), "bootstrap:")

\* The input begins with the bootstrap line of its first recipe.
BeginsWithBootstrap == HasPrefix(ToLower(RawOf(input)), "bootstrap:")

Done(op) == output # <<>> /\ output[1].op = op

\* All has returned one definition for each recipe, in the order of the input.
OnePerRecipe ==
    /\ output[1].err = "nil"
    /\ Len(output[1].found) = Len(input.pieces)
    /\ \A i \in 1..Len(input.pieces) :
           output[1].found[i].Header
               = ParseDefinitionBytes(Pieces[input.pieces[i]]).Header

FullRawIsConcat ==
    \A i \in 1..Len(output[1].found) :
        output[1].found[i].FullRaw = ConcatRaw(output[1].found)

Slices == SelectSeq(splitBuf(RawOf(input)), LAMBDA t : Len(t) > 0)
SliceErr(i) == ParseDefinitionBytes(Slices[i]).err
Aborting == { i \in 1..Len(Slices) : SliceErr(i) \notin {"nil", errEmptyDefinition} }
Yielding == { i \in 1..Len(Slices) : SliceErr(i) = "nil" }

\* Every line of the text is empty or a comment.
NothingToParse(text) ==
    \A i \in 1..Len(scanLines(text)) :
        IsBlank(scanLines(text)[i]) \/ IsComment(scanLines(text)[i])

\* C25: All passes over the slices that parse to the empty definition, fails
\* with the error of the first slice that has another error, and fails with
\* the no-stages error when no slice gives a definition; ParseDefinitionFile
\* returns the empty-definition error for a text without header and
\* sections.
C25_EmptySkipped ==
    /\ Done("All") =>
           /\ Aborting # {} =>
                  output[1].err =
                      SliceErr(CHOOSE i \in Aborting : \A j \in Aborting : i <= j)
           /\ (Aborting = {} /\ Yielding = {}) =>
                  output[1].err = "no stages found in definition file"
           /\ (Aborting = {} /\ Yielding # {}) =>
                  /\ output[1].err = "nil"
                  /\ Len(output[1].found) = Cardinality(Yielding)
    /\ (Done("ParseDefinitionFile") /\ NothingToParse(RawOf(input))) =>
           output[1].err = errEmptyDefinition

\* All has returned a definition after it passed over a slice that parsed to
\* the empty definition.
C25_Witness ==
    /\ Done("All")
    /\ output[1].err = "nil"
    /\ Len(output[1].found) = 1
    /\ \E i \in 1..Len(Slices) : SliceErr(i) = errEmptyDefinition

\* The names of the caller that the text of the file uses.
UsedNames ==
    { n \in DOMAIN input.args : IndexSub(RawOf(input), "{{ " \o n \o " }}") # 0 }

Restrict(m, keys) == [k \in DOMAIN m \cap keys |-> m[k]]

\* C27 as stated: for every kind of spec the unused arguments MakeAllDefs
\* returns are the names of the caller that no stage used, and the
\* arguments that are not used do not make MakeAllDefs fail.
C27_UnusedArgs ==
    Done("MakeAllDefs") =>
        /\ output[1].err = "nil" =>
               output[1].unused =
                   DOMAIN input.args
                       \ (IF input.kind = "file" THEN UsedNames ELSE {})
        /\ output[1].err =
               MakeAllDefs(input.kind, RawOf(input),
                           Restrict(input.args, UsedNames), input.strict).err

\* The same for the specs that are definition files.
C27_FileUnused == input.kind = "file" => C27_UnusedArgs

----------------------------------------------------------------------------
(* The sections of apps *)

\* The section lines the parser takes for sections of apps, with or without
\* the name of the app.
AppPrefixed ==
    { i \in 1..Len(input.sections) :
        getSectionName(input.sections[i]) \in appSections }

AppNameOf(line) == SplitN(TrimLeft(line, "%"), " ", 3)[2]

\* The names of the apps of the section lines from k on that are not in
\* seen, each once, in the order of the recipe.
RECURSIVE AppNamesFrom(_, _)
AppNamesFrom(k, seen) ==
    IF k > Len(input.sections) THEN <<>>
    ELSE IF k \in AppLines /\ AppNameOf(input.sections[k]) \notin seen
    THEN <<AppNameOf(input.sections[k])>>
         \o AppNamesFrom(k + 1, seen \cup {AppNameOf(input.sections[k])})
    ELSE AppNamesFrom(k + 1, seen)

\* The bodies of the sections from k on that have the key, lower-cased.  The
\* first token of a recipe is trimmed (part_002 line 234): the body of the
\* first section of a recipe without header has no white space at its end.
RECURSIVE BodiesOf(_, _)
BodiesOf(key, k) ==
    IF k > Len(input.sections) THEN ""
    ELSE (IF k \in AppLines /\ appKeyLowered(input.sections[k]) = key
          THEN (IF k = 1 /\ input.header = <<>>
                THEN TrimSpace(SectionBody) ELSE SectionBody)
          ELSE "")
         \o BodiesOf(key, k + 1)

\* C26 as stated: a section whose first word, lower-cased, is one of the
\* prefixes of apps needs the name of an app; with one the parse succeeds,
\* the body is in CustomData under the lower-cased prefix and the name,
\* and AppOrder has the name of every app once, in the order in which the
\* apps appear first.
C26_AppSections ==
    ( /\ output # <<>>
      /\ output[1].err \notin {"failed to parse deffile header", "panic"}
      /\ UnknownLines = {}
      /\ AppPrefixed # {} ) =>
        IF AppPrefixed # AppLines
        THEN output[1].err = "could not be split into section name and app name"
        ELSE /\ output[1].err = "nil"
             /\ output[1].CustomData # <<>>
             /\ \A i \in AppLines :
                    LET key == appKeyLowered(input.sections[i])
                    IN  /\ key \in DOMAIN output[1].CustomData[1]
                        /\ output[1].CustomData[1][key] = BodiesOf(key, 1)
             /\ output[1].AppOrder = AppNamesFrom(1, {})

\* The same for the recipes whose app section names are written in lower case.
C26_LowerCase == AppLinesLower => C26_AppSections

----------------------------------------------------------------------------
(* The FUSE drivers, internal/pkg/image/driver/squashfuse and overlayfsfuse.
   The two drivers differ in the command line of the helper only. *)

\* Largest number of calls of Mount on a driver.
MaxMounts == 2

\* Mount: maxTime and sleepTime, in milliseconds.
maxTime == 2000
sleepTime == 25

\* params.Target, and a mount point of another file system.
Target == "/mnt/x"
OtherPoint == "/other"

DriverNames == {"squashfuse", "overlayfsfuse"}

\* The helper of the command d.cmd.
Helper == helpers[cmd]

InitDriver ==
    /\ BuildIdle
    /\ MetadataIdle
    /\ FuncIdle
    /\ FuseappsIdle
    /\ driver \in DriverNames
    /\ cmd = 0
    /\ helpers = <<>>
    /\ mountinfo \in {{}, {OtherPoint}, {Target}}
    /\ mpc = "idle"
    /\ totTime = 0
    /\ ret = NoReturn
    /\ obs = NoPoll

\* process.Kill(): a process that runs is ended; it stays a zombie until it
\* is waited for.  The error for a process that has ended is not looked at.
Kill(hs, i) ==
    IF hs[i].state = "alive" THEN [hs EXCEPT ![i].state = "exited"] ELSE hs

\* Stop: the process of d.cmd is killed, if there is a command and it has a
\* process.
StopKills(hs) ==
    IF cmd # 0 /\ hs[cmd].Process THEN Kill(hs, cmd) ELSE hs

\* The mutant of entryFound: any entry of the table will do.
entryFoundAny(entries, target) == entries # {}

\* The loop over entries: an entry has the target as its mount point.
entryFound(entries, target) == target \in entries

\* The mutant of nextTotTime: the time does not advance.
nextTotTimeSame(t) == t

\* totTime += sleepTime.
nextTotTime(t) == t + sleepTime

\* Mount up to d.cmd.Start(): the command replaces d.cmd; Start fails, or
\* the helper runs.
Mount_Start ==
    /\ mpc = "idle"
    /\ Len(helpers) < MaxMounts
    /\ cmd' = Len(helpers) + 1
    /\ obs' = [NoPoll EXCEPT !.stale = Target \in mountinfo]
    /\ \/ /\ helpers' = Append(helpers, [Process |-> FALSE, state |-> "none"])
          /\ ret' = [op |-> "Mount", err |-> "Start failed"]
          /\ UNCHANGED <<mpc, totTime>>
       \/ /\ helpers' = Append(helpers, [Process |-> TRUE, state |-> "alive"])
          /\ mpc' = "loop"
          /\ totTime' = 0
          /\ UNCHANGED ret
    /\ UNCHANGED <<driver, mountinfo>>
    /\ UNCHANGED <<BuildVars, MetadataVars, FuncVars, FuseappsVars>>

\* for totTime < maxTime: time.Sleep(sleepTime); totTime += sleepTime.
Mount_Sleep ==
    /\ mpc = "loop"
    /\ totTime < maxTime
    /\ totTime' = nextTotTime(totTime)
    /\ mpc' = "signal"
    /\ UNCHANGED <<driver, cmd, helpers, mountinfo, ret, obs>>
    /\ UNCHANGED <<BuildVars, MetadataVars, FuncVars, FuseappsVars>>

\* process.Signal(0).  For a helper that runs the error is nil.  For one that
\* has ended and has not been waited for the outcome depends on the
\* platform: nil, as for every zombie, or an error; on an error Mount waits
\* for the helper and returns.
Mount_Signal ==
    /\ mpc = "signal"
    /\ obs' = [NoPoll EXCEPT !.alive = (Helper.state = "alive"),
                             !.stale = obs.stale]
    /\ \/ /\ mpc' = "mountinfo"
          /\ UNCHANGED <<helpers, ret>>
       \/ /\ Helper.state # "alive"
          /\ helpers' = [helpers EXCEPT ![cmd].state = "reaped"]
          /\ ret' = [op |-> "Mount", err |-> "failed"]
          /\ mpc' = "idle"
    /\ UNCHANGED <<driver, cmd, mountinfo, totTime>>
    /\ UNCHANGED <<BuildVars, MetadataVars, FuncVars, FuseappsVars>>

\* proc.GetMountInfoEntry and the loop over the entries: the read fails and
\* Mount stops the helper, or the target is among the entries, or not.
Mount_GetMountInfo ==
    /\ mpc = "mountinfo"
    /\ \/ /\ obs' = obs
          /\ helpers' = StopKills(helpers)
          /\ ret' = [op |-> "Mount", err |-> "failure to get mount info"]
          /\ mpc' = "idle"
       \/ /\ obs' = [obs EXCEPT !.readOk = TRUE,
                                !.found = Target \in mountinfo]
          /\ IF entryFound(mountinfo, Target)
             THEN /\ ret' = [op |-> "Mount", err |-> "nil"]
                  /\ mpc' = "idle"
             ELSE /\ mpc' = "loop"
                  /\ UNCHANGED ret
          /\ UNCHANGED helpers
    /\ UNCHANGED <<driver, cmd, mountinfo, totTime>>
    /\ UNCHANGED <<BuildVars, MetadataVars, FuncVars, FuseappsVars>>

\* After the loop: d.Stop() and the error of the mount that did not appear.
Mount_Timeout ==
    /\ mpc = "loop"
    /\ ~(totTime < maxTime)
    /\ helpers' = StopKills(helpers)
    /\ ret' = [op |-> "Mount", err |-> "failed to mount"]
    /\ mpc' = "idle"
    /\ UNCHANGED <<driver, cmd, mountinfo, totTime, obs>>
    /\ UNCHANGED <<BuildVars, MetadataVars, FuncVars, FuseappsVars>>

\* Stop, called by the user of the driver.
Stop ==
    /\ mpc = "idle"
    /\ helpers' = StopKills(helpers)
    /\ ret' = [op |-> IF ret.op \in {"Stop", "Stop again"}
                      THEN "Stop again" ELSE "Stop",
               err |-> "nil"]
    /\ UNCHANGED <<driver, cmd, mountinfo, mpc, totTime, obs>>
    /\ UNCHANGED <<BuildVars, MetadataVars, FuncVars, FuseappsVars>>

\* A helper that runs mounts the target.
HelperMounts ==
    /\ \E i \in 1..Len(helpers) : helpers[i].state = "alive"
    /\ Target \notin mountinfo
    /\ mountinfo' = mountinfo \cup {Target}
    /\ UNCHANGED <<driver, cmd, helpers, mpc, totTime, ret, obs>>
    /\ UNCHANGED <<BuildVars, MetadataVars, FuncVars, FuseappsVars>>

\* A helper that runs ends by itself.
HelperExits ==
    /\ \E i \in 1..Len(helpers) :
           /\ helpers[i].state = "alive"
           /\ helpers' = [helpers EXCEPT ![i].state = "exited"]
    /\ UNCHANGED <<driver, cmd, mountinfo, mpc, totTime, ret, obs>>
    /\ UNCHANGED <<BuildVars, MetadataVars, FuncVars, FuseappsVars>>

\* The steps of Mount.
MountStep ==
    Mount_Sleep \/ Mount_Signal \/ Mount_GetMountInfo \/ Mount_Timeout

NextDriver ==
    \/ Mount_Start
    \/ Mount_Sleep
    \/ Mount_Signal
    \/ Mount_GetMountInfo
    \/ Mount_Timeout
    \/ Stop
    \/ HelperMounts
    \/ HelperExits

SpecDriver == InitDriver /\ [][NextDriver]_vars

\* Mount, once called, is not kept from running.
SpecDriverFair == SpecDriver /\ WF_vars(MountStep)

\* The number of polls of a call of Mount: 2 s in steps of 25 ms.
MaxPolls == maxTime \div sleepTime

MountReturned == mpc = "idle" /\ ret.op = "Mount"

C29_MountTerminates ==
    /\ [](totTime <= maxTime /\ totTime \div sleepTime <= MaxPolls)
    /\ (mpc # "idle") ~> MountReturned

\* Mount has returned after its last poll found nothing.
C29_Witness ==
    /\ MountReturned
    /\ ret.err = "failed to mount"
    /\ totTime \div sleepTime = MaxPolls

StopReturned == mpc = "idle" /\ ret.op \in {"Stop", "Stop again"}

\* C30 as stated: after Stop no helper that a call of Mount on the driver
\* started is running, and Stop returns no error.
C30_StopKillsAll ==
    StopReturned =>
        /\ \A i \in 1..Len(helpers) : helpers[i].state # "alive"
        /\ ret.err = "nil"

\* The same for a driver on which Mount was called once at most.
C30_OneMount == Len(helpers) <= 1 => C30_StopKillsAll

----------------------------------------------------------------------------
(* The order of the steps of insertMetadata *)

\* Lines 32-74: the steps in the order of the calls.
MetadataOrder ==
    <<"help", "labels", "definition", "environment", "startscript",
      "runscript", "test", "inspect">>

\* The first k steps, and the place of a step.
FirstSteps(k) == { MetadataOrder[i] : i \in 1..k }
StepIndex(step) == CHOOSE i \in 1..Len(MetadataOrder) : MetadataOrder[i] = step

\* The steps that have returned nil are the steps before the one that runs;
\* insertMetadata has returned nil when all of them have.
StepsInOrder ==
    bundle.step # "idle" =>
        /\ \E k \in 0..Len(MetadataOrder) : bundle.did = FirstSteps(k)
        /\ bundle.step \notin {"done", "failed"} =>
               bundle.did = FirstSteps(StepIndex(bundle.step) - 1)
        /\ bundle.step = "done" => bundle.did = FirstSteps(Len(MetadataOrder))
        /\ bundle.step = "failed" => "inspect" \notin bundle.did

\* After a step has failed no step runs until insertMetadata is called
\* again, and the inspect metadata is stored by the inspect step of a call
\* of which every step has returned nil.
StepsStop ==
    /\ bundle.step = "failed" => (bundle' = bundle \/ bundle'.step = "help")
    /\ bundle.step = "failed" /\ bundle'.step = "failed" => rootfs' = rootfs
    /\ (~rootfs.inspect /\ rootfs'.inspect) =>
           /\ bundle.step = "inspect" /\ bundle'.step = "done"
           /\ bundle'.did = FirstSteps(Len(MetadataOrder))

\* C33: insertMetadata runs its steps in the order help, labels, definition,
\* environment, startscript, runscript, test, inspect; the inspect step
\* runs after all the others have returned nil, a step that fails keeps
\* every later step from running, and the inspect metadata is stored only
\* when every step has returned nil.
C33_StepsInOrder == []StepsInOrder /\ [][StepsStop]_vars

\* insertMetadata has returned nil after it wrote the test script and stored
\* the inspect metadata.
C33_Witness ==
    /\ bundle.step = "done"
    /\ bundle.calls = 1
    /\ rootfs.test # <<>>
    /\ rootfs.inspect

----------------------------------------------------------------------------
(* The fuseapps driver *)

\* The values of params.Filesystem of the model.
Filesystems == {"overlay", "squashfs", "ext3"}

\* image.GetDriver: the driver registered under the name, or nil.
GetDriver(name) == IF name \in registry THEN name ELSE "nil"

\* The sub-driver whose Mount serves the filesystem.
Needed(filesystem) == IF filesystem = "overlay" THEN "overlayfsfuse" ELSE "squashfuse"

\* The fields of the driver are what GetDriver returns now.
Fresh ==
    /\ squashImageDriver = GetDriver("squashfuse")
    /\ overlayfsImageDriver = GetDriver("overlayfsfuse")

InitFuseapps ==
    /\ BuildIdle
    /\ MetadataIdle
    /\ FuncIdle
    /\ DriverIdle
    /\ registry \in SUBSET DriverNames
    /\ squashImageDriver = "nil"
    /\ overlayfsImageDriver = "nil"
    /\ fret = NoCall

\* What a call leaves in fret: the registry and the freshness of the fields
\* at the call are kept with it.
Returned(op, filesystem, to, err) ==
    [op |-> op, filesystem |-> filesystem, to |-> to, err |-> err,
     reg |-> registry, fresh |-> Fresh]

\* squashfuse.Init and overlayfsfuse.Init with register set and the binary
\* found: the driver is registered under its name.
Init_Register ==
    /\ \E name \in DriverNames :
           /\ name \notin registry
           /\ registry' = registry \cup {name}
    /\ UNCHANGED <<squashImageDriver, overlayfsImageDriver, fret>>
    /\ UNCHANGED <<BuildVars, MetadataVars, FuncVars, DriverVars>>

\* Features: the two fields are set from the registry.
Fuseapps_Features ==
    /\ squashImageDriver' = GetDriver("squashfuse")
    /\ overlayfsImageDriver' = GetDriver("overlayfsfuse")
    /\ fret' = Returned("Features", "", "nil", "nil")
    /\ UNCHANGED registry
    /\ UNCHANGED <<BuildVars, MetadataVars, FuncVars, DriverVars>>

\* Mount, lines 73-81: the field the filesystem selects.
mountDriver(filesystem) ==
    IF filesystem = "overlay" THEN overlayfsImageDriver ELSE squashImageDriver

\* Mount: the Mount of the selected driver is called and its result, nil or
\* an error, is returned; with no driver in the field Mount fails.
Fuseapps_Mount ==
    /\ \E filesystem \in Filesystems :
           IF mountDriver(filesystem) # "nil"
           THEN \E err \in {"nil", "mount failed"} :
                    fret' = Returned("Mount", filesystem, mountDriver(filesystem), err)
           ELSE fret' = Returned("Mount", filesystem, "nil",
                                 "No image driver registered")
    /\ UNCHANGED <<registry, squashImageDriver, overlayfsImageDriver>>
    /\ UNCHANGED <<BuildVars, MetadataVars, FuncVars, DriverVars>>

\* The drivers Start and Stop call: those of the fields that are not nil.
\* Start and Stop of the two drivers return nil.
Held == {squashImageDriver, overlayfsImageDriver} \ {"nil"}
FanOut == IF Held = {} THEN "nil"
          ELSE IF Held = DriverNames THEN "both"
          ELSE CHOOSE name \in Held : TRUE

Fuseapps_Start ==
    /\ fret' = Returned("Start", "", FanOut, "nil")
    /\ UNCHANGED <<registry, squashImageDriver, overlayfsImageDriver>>
    /\ UNCHANGED <<BuildVars, MetadataVars, FuncVars, DriverVars>>

Fuseapps_Stop ==
    /\ fret' = Returned("Stop", "", FanOut, "nil")
    /\ UNCHANGED <<registry, squashImageDriver, overlayfsImageDriver>>
    /\ UNCHANGED <<BuildVars, MetadataVars, FuncVars, DriverVars>>

NextFuseapps ==
    \/ Init_Register
    \/ Fuseapps_Features
    \/ Fuseapps_Mount
    \/ Fuseapps_Start
    \/ Fuseapps_Stop

SpecFuseapps == InitFuseapps /\ [][NextFuseapps]_vars

\* Mount was called and what it needed was registered, or not.
MountCalled == fret.op = "Mount"
NeededRegistered == Needed(fret.filesystem) \in fret.reg

\* C31 as stated: in any order of the calls Mount goes to the registered
\* overlayfsfuse driver for the filesystem "overlay" and to the registered
\* squashfuse driver for every other one, and it fails with "No image
\* driver registered" only when the driver it needs is not registered.
C31_Dispatch ==
    MountCalled =>
        /\ NeededRegistered => fret.to = Needed(fret.filesystem)
        /\ fret.err = "No image driver registered" => ~NeededRegistered

\* The same for a call of Mount that comes after a call of Features with no
\* driver registered in between.
C31_AfterFeatures ==
    (MountCalled /\ fret.fresh) =>
        /\ NeededRegistered => fret.to = Needed(fret.filesystem)
        /\ fret.err = "No image driver registered" <=> ~NeededRegistered

----------------------------------------------------------------------------
(* The polls of Mount *)

\* C32 as stated: at each poll the check of the helper comes before the scan
\* of the table; when the helper has ended Mount does not scan the table but
\* waits for the helper and returns its error, also when the table has an
\* entry for the target.
C32_LivenessFirst ==
    /\ mpc = "mountinfo" => obs.alive
    /\ (MountReturned /\ ret.err \in {"nil", "failed to mount"}) => obs.alive

\* What the code does at a poll whose Signal call returned an error: Mount
\* has waited for the helper and returned its error without reading the
\* table, whatever the table holds.
C32_SignalErrorFirst ==
    (MountReturned /\ ret.err = "failed") =>
        /\ ~obs.alive /\ ~obs.readOk
        /\ Helper.state = "reaped"

\* C36 as stated: Mount returns nil only for a mount that the helper of the
\* call made; an entry for the target that the table had before the helper
\* was started does not make Mount return nil.
C36_OwnMount == (MountReturned /\ ret.err = "nil") => ~obs.stale

----------------------------------------------------------------------------
(* The conveyors and the directories of newBuild *)

\* C34 as stated: when Full calls Get or Pack of the conveyor of a stage,
\* newBuild has given the stage a conveyor, whatever update, force and the
\* number of stages are.
C34_ConveyorAssigned == pc \in {"get", "cpack"} => stages[cur].c

\* The same for the builds of one stage.
C34_OneStage == Len(defs) = 1 => C34_ConveyorAssigned

\* C38 as stated: when newBuild has returned an error, none of the
\* directories it made for the stages is left.
C38_NothingLeft == pc = "nbFailed" => bundleDirs = {}

\* When newBuild fails no stage has lost its directory: those of all the
\* stages it went through are left, but for a stage whose directory or
\* bundle could not be made.
C38_AllLeft ==
    pc = "nbFailed" =>
        /\ 1..Len(stages) \subseteq bundleDirs
        /\ bundleDirs \subseteq 1..(Len(stages) + 1)

----------------------------------------------------------------------------
(* The parser on every text *)

\* C35 as stated: ParseDefinitionFile and All return a definition or an
\* error for every text and do not end in a run-time panic.
C35_Total ==
    (Done("ParseDefinitionFile") \/ Done("All")) => output[1].err # "panic"

\* The same for MakeAllDefs, which calls them.
C35_MakeAllDefsTotal == Done("MakeAllDefs") => output[1].err # "panic"

----------------------------------------------------------------------------
(* insertDefinition on a rootfs that has a history *)

\* The directories bootstrap_history of the model, each file under the index
\* of its name Apptainer<N>: the names a build leaves, Apptainer0 and
\* Apptainer1, and the same directory after Apptainer0 was removed.
HistoryDirs ==
    { (0 :> "zero") @@ (1 :> "one"),
      (1 :> "one") }

\* A rootfs that has been built before: it has a history, and no labels.
InitHistory ==
    /\ BuildIdle
    /\ FuncIdle
    /\ DriverIdle
    /\ FuseappsIdle
    /\ \E h \in HistoryDirs :
           rootfs = [EmptyRootfs EXCEPT !.histDir = TRUE, !.history = h]
    /\ bundle = NoBundle
    /\ inserted = <<>>

SpecHistory == InitHistory /\ [][NextMetadata]_vars

\* No step takes a file of bootstrap_history away or changes it.
HistoryKept ==
    \A n \in DOMAIN rootfs.history :
        /\ n \in DOMAIN rootfs'.history
        /\ rootfs'.history[n] = rootfs.history[n]

\* The names of bootstrap_history are Apptainer0 to Apptainer<k-1>.
HistoryInARow ==
    DOMAIN rootfs.history = 0..(Cardinality(DOMAIN rootfs.history) - 1)

\* C37 as stated: insertDefinition does not replace or remove a file that
\* bootstrap_history has, whatever the names of its files are.
C37_HistoryKept == [][HistoryKept]_vars

\* The same for a directory whose names are Apptainer0 to Apptainer<k-1>.
C37_InARowKept == [][HistoryInARow => HistoryKept]_vars

====
